---- MODULE Spec2Model ----
(***************************************************************************)
(* A model of the repository-analysis service: the structured completion   *)
(* client (src/shared/utils/llm-client.ts), the stage sequences of the     *)
(* analysis agents (github-analyzer, architecture-inference, code-flow,    *)
(* risk-assessment) and the run coordinator (src/api/index.ts).            *)
(*                                                                         *)
(* Text is a sequence of one-character strings.  The alphabet is           *)
(*   backtick  j s o n  {  }  [  ]  quote  ,  :  1  a  and the blank,       *)
(* over which JSON text consists of objects, arrays, strings and numbers   *)
(* only (no literal, escape, sign, fraction or exponent can be spelled),   *)
(* so the parser below is JSON.parse restricted to that alphabet.          *)
(***************************************************************************)
EXTENDS Integers, Sequences, FiniteSets, TLC

VARIABLES
    call,             \* the generateStructuredResponse call in progress
    pipe,             \* what runs around the call: one analyze() invocation, a
                      \* session of calls on one client, one repair of a text,
                      \* or the status streams the server has open
    analysisResults,  \* api/index.ts: Map<string, AnalysisResponse>
    tasks,            \* api/index.ts: the performAnalysis invocation of each run id
    nextId            \* the number of ids generateAnalysisId has handed out

vars == <<call, pipe, analysisResults, tasks, nextId>>

(***************************************************************************)
(* Text helpers                                                            *)
(***************************************************************************)

\* The characters the regular-expression class \s, String.trim and the JSON
\* grammar treat as white space (the blank stands for all of them).
WS == {" "}

MinOf(S) == CHOOSE x \in S : \A y \in S : x <= y

MaxOf(S) == CHOOSE x \in S : \A y \in S : y <= x

\* The first index >= i of s that holds no white space (Len(s) + 1 if none).
SkipWs(s, i) ==
    MinOf({j \in i..(Len(s) + 1) : j = Len(s) + 1 \/ s[j] \notin WS})

\* Whether pat occurs in s at index i.
OccursAt(s, pat, i) ==
    /\ i >= 1
    /\ i + Len(pat) - 1 <= Len(s)
    /\ SubSeq(s, i, i + Len(pat) - 1) = pat

\* String.indexOf(pat, from), 1-based: the first index >= from where pat
\* occurs, 0 when there is none.
IndexOf(s, pat, from) ==
    LET hits == {i \in from..Len(s) : OccursAt(s, pat, i)}
    IN  IF hits = {} THEN 0 ELSE MinOf(hits)

\* String.lastIndexOf(pat), 1-based, 0 when there is none.
LastIndexOf(s, pat) ==
    LET hits == {i \in 1..Len(s) : OccursAt(s, pat, i)}
    IN  IF hits = {} THEN 0 ELSE MaxOf(hits)

\* String.trim
Trim(s) ==
    LET keep == {i \in 1..Len(s) : s[i] \notin WS}
    IN  IF keep = {} THEN <<>> ELSE SubSeq(s, MinOf(keep), MaxOf(keep))

\* String.endsWith
EndsWith(s, pat) == Len(s) >= Len(pat) /\ OccursAt(s, pat, Len(s) - Len(pat) + 1)

(***************************************************************************)
(* JSON.parse over the alphabet                                            *)
(***************************************************************************)

NoVal == [t |-> "none", v |-> <<>>]

ParseFail == [ok |-> FALSE, val |-> NoVal, pos |-> 0]

\* A string token starting at the quote s[i]: up to the next quote.
ParseString(s, i) ==
    LET j == IndexOf(s, <<"\"">>, i + 1)
    IN  IF j = 0 THEN ParseFail
        ELSE [ok |-> TRUE, val |-> [t |-> "str", v |-> SubSeq(s, i + 1, j - 1)], pos |-> j + 1]

\* A number token starting at the digit s[i]: the maximal run of digits.
ParseNumber(s, i) ==
    LET j == MinOf({k \in i..(Len(s) + 1) : k = Len(s) + 1 \/ s[k] # "1"})
    IN  [ok |-> TRUE, val |-> [t |-> "num", v |-> SubSeq(s, i, j - 1)], pos |-> j]

RECURSIVE ParseValue(_, _), ParseMembers(_, _, _), ParseElements(_, _, _)

\* The members of an object, the first one expected at index k; acc maps the
\* keys read so far to their values (a repeated key keeps the last value).
ParseMembers(s, k, acc) ==
    IF k > Len(s) \/ s[k] # "\"" THEN ParseFail
    ELSE LET key == ParseString(s, k)
         IN  IF ~key.ok THEN ParseFail
             ELSE LET c == SkipWs(s, key.pos)
                  IN  IF c > Len(s) \/ s[c] # ":" THEN ParseFail
                      ELSE LET val == ParseValue(s, c + 1)
                           IN  IF ~val.ok THEN ParseFail
                               ELSE LET d    == SkipWs(s, val.pos)
                                        acc2 == [x \in (DOMAIN acc) \cup {key.val.v} |->
                                                    IF x = key.val.v THEN val.val ELSE acc[x]]
                                    IN  IF d > Len(s) THEN ParseFail
                                        ELSE IF s[d] = "}"
                                             THEN [ok |-> TRUE, val |-> [t |-> "obj", v |-> acc2], pos |-> d + 1]
                                        ELSE IF s[d] = ","
                                             THEN ParseMembers(s, SkipWs(s, d + 1), acc2)
                                        ELSE ParseFail

\* The elements of an array, the first one expected at index k.
ParseElements(s, k, acc) ==
    LET val == ParseValue(s, k)
    IN  IF ~val.ok THEN ParseFail
        ELSE LET d == SkipWs(s, val.pos)
             IN  IF d > Len(s) THEN ParseFail
                 ELSE IF s[d] = "]"
                      THEN [ok |-> TRUE, val |-> [t |-> "arr", v |-> Append(acc, val.val)], pos |-> d + 1]
                 ELSE IF s[d] = ","
                      THEN ParseElements(s, d + 1, Append(acc, val.val))
                 ELSE ParseFail

\* One JSON value starting at or after index i (leading white space skipped).
ParseValue(s, i) ==
    LET j == SkipWs(s, i)
    IN  IF j > Len(s) THEN ParseFail
        ELSE IF s[j] = "{"
             THEN LET k == SkipWs(s, j + 1)
                  IN  IF k > Len(s) THEN ParseFail
                      ELSE IF s[k] = "}"
                           THEN [ok |-> TRUE, val |-> [t |-> "obj", v |-> <<>>], pos |-> k + 1]
                      ELSE ParseMembers(s, k, <<>>)
        ELSE IF s[j] = "["
             THEN LET k == SkipWs(s, j + 1)
                  IN  IF k > Len(s) THEN ParseFail
                      ELSE IF s[k] = "]"
                           THEN [ok |-> TRUE, val |-> [t |-> "arr", v |-> <<>>], pos |-> k + 1]
                      ELSE ParseElements(s, k, <<>>)
        ELSE IF s[j] = "\"" THEN ParseString(s, j)
        ELSE IF s[j] = "1" THEN ParseNumber(s, j)
        ELSE ParseFail

\* A parse result r counts only when nothing but white space follows it.
WholeText(s, r) ==
    IF r.ok /\ SkipWs(s, r.pos) > Len(s)
    THEN [ok |-> TRUE, val |-> r.val]
    ELSE [ok |-> FALSE, val |-> NoVal]

\* JSON.parse(s): ok with the value when the whole of s is one JSON value,
\* not ok (JSON.parse throws a SyntaxError) otherwise.
JsonParse(s) == WholeText(s, ParseValue(s, 1))

(***************************************************************************)
(* generateStructuredResponse: extraction and truncation repair            *)
(***************************************************************************)

\* The fence of a code block, three backticks (a backtick is written '
\* here: TLA+ strings cannot hold the backtick itself).
Fence == <<"'", "'", "'">>

JsonFence == Fence \o <<"j", "s", "o", "n">>

NoMatch == [found |-> FALSE, text |-> <<>>]

\* The capture group of /<tag>\s*([\s\S]*?)\s*<fence>/ when the tag ends
\* before index b and the first fence after it starts at f (0: none): \s* is
\* greedy and the group lazy, so the group runs from the first non-blank at
\* or after b to the blanks that precede the fence.
FenceCapture(s, b, f) ==
    IF f = 0 THEN NoMatch
    ELSE LET q == SkipWs(s, b)
             e == MinOf({k \in q..f : \A m \in k..(f - 1) : s[m] \in WS})
         IN  [found |-> TRUE, text |-> SubSeq(s, q, e - 1)]

\* The match of the pattern when the leftmost tag starts at p (0: none).
FenceAfter(s, p, b) ==
    IF p = 0 THEN NoMatch ELSE FenceCapture(s, b, IndexOf(s, Fence, b))

\* response.match(/<tag>\s*([\s\S]*?)\s*<fence>/): the capture group of the
\* leftmost match, which starts at the first occurrence of the tag and needs
\* a closing fence after it.
FencedCandidate(s, tag) == FenceAfter(s, IndexOf(s, tag, 1), IndexOf(s, tag, 1) + Len(tag))

\* The text between the first "{" (at p) and the last "}" (at e).
BraceSpan(s, p, e) ==
    IF p # 0 /\ p < e /\ SkipWs(s, e + 1) > Len(s)
    THEN [found |-> TRUE, text |-> SubSeq(s, p, e)]
    ELSE NoMatch

\* response.match(/\{[\s\S]*?\}(?=\s*$|$)/): from the first "{" to a "}" that
\* only blanks follow, which can only be the last "}" of the response.
BraceCandidate(s) == BraceSpan(s, IndexOf(s, <<"{">>, 1), LastIndexOf(s, <<"}">>))

\* The number of c in s.
RECURSIVE CountChar(_, _)
CountChar(s, c) ==
    IF s = <<>> THEN 0
    ELSE (IF Head(s) = c THEN 1 ELSE 0) + CountChar(Tail(s), c)

\* n copies of the character c.
RECURSIVE Repeat(_, _)
Repeat(c, n) == IF n <= 0 THEN <<>> ELSE <<c>> \o Repeat(c, n - 1)

\* The structures of s that are open at its end, the innermost last, found
\* by reading s from index i as a JSON text (brackets in strings do not count).
RECURSIVE OpenStructures(_, _, _, _)
OpenStructures(s, i, open, inString) ==
    IF i > Len(s) THEN open
    ELSE IF inString
         THEN IF s[i] = "\\" THEN OpenStructures(s, i + 2, open, TRUE)
              ELSE OpenStructures(s, i + 1, open, s[i] # "\"")
         ELSE IF s[i] = "\"" THEN OpenStructures(s, i + 1, open, TRUE)
         ELSE IF s[i] \in {"{", "["} THEN OpenStructures(s, i + 1, Append(open, s[i]), FALSE)
         ELSE IF s[i] \in {"}", "]"} /\ open # <<>>
              THEN OpenStructures(s, i + 1, SubSeq(open, 1, Len(open) - 1), FALSE)
         ELSE OpenStructures(s, i + 1, open, FALSE)

\* The closers of the open structures, the innermost first.
RECURSIVE ClosersOf(_)
ClosersOf(open) ==
    IF open = <<>> THEN <<>>
    ELSE <<IF open[Len(open)] = "{" THEN "}" ELSE "]">>
             \o ClosersOf(SubSeq(open, 1, Len(open) - 1))

\* Closers that follow the nesting of what is open.
ClosersInNestingOrder(s) == ClosersOf(OpenStructures(s, 1, <<>>, FALSE))

\* The closers both repairs append: every missing "]", then every missing "}".
Closers(s) ==
    Repeat("]", CountChar(s, "[") - CountChar(s, "]"))
        \o Repeat("}", CountChar(s, "{") - CountChar(s, "}"))

Null == [ok |-> FALSE, val |-> NoVal]

\* What a repair returns: a text, or null.
Repaired(text) == [some |-> TRUE, text |-> text \o Closers(text)]

\* repairs[0]: keep the text up to the last quote and close what is open; a
\* text that already ends with a quote is returned as it is.
RepairUnterminatedString(jsonStr) ==
    IF EndsWith(jsonStr, <<"\"">>) THEN [some |-> TRUE, text |-> jsonStr]
    ELSE IF LastIndexOf(jsonStr, <<"\"">>) > 1
         THEN Repaired(SubSeq(jsonStr, 1, LastIndexOf(jsonStr, <<"\"">>)))
         ELSE [some |-> FALSE, text |-> <<>>]

\* jsonStr without the trailing comma at c, if c is one (/,\s*$/).
DropTrailingComma(jsonStr, c) ==
    IF c # 0 /\ SkipWs(jsonStr, c + 1) > Len(jsonStr)
    THEN SubSeq(jsonStr, 1, c - 1)
    ELSE jsonStr

\* repairs[1]: drop a trailing comma and close what is open.
RepairIncomplete(jsonStr) ==
    Repaired(DropTrailingComma(jsonStr, LastIndexOf(jsonStr, <<",">>)))

\* One round of the loop over the repairs: a repair that yields no text, or
\* a text that does not parse, is passed over.
ParseRepaired(repairedStr) ==
    IF repairedStr.some /\ repairedStr.text # <<>>
    THEN JsonParse(repairedStr.text)
    ELSE Null

\* A loop that keeps the last repair whose text parses.
LastParsed(p1, p2) == IF p2.ok THEN p2 ELSE IF p1.ok THEN p1 ELSE Null

\* The first repair whose text parses.
FirstParsed(p1, p2) == IF p1.ok THEN p1 ELSE IF p2.ok THEN p2 ELSE Null

TryRepairs(jsonStr) ==
    FirstParsed(ParseRepaired(RepairUnterminatedString(jsonStr)),
                ParseRepaired(RepairIncomplete(jsonStr)))

\* The scan for the end of the first object: the indices at or after
\* startIndex where as many braces have closed as have opened.
Balanced(jsonStr, startIndex) ==
    {i \in startIndex..Len(jsonStr) :
        CountChar(SubSeq(jsonStr, startIndex, i), "{")
            = CountChar(SubSeq(jsonStr, startIndex, i), "}")}

\* What the body of repairTruncatedJson's outer try block ends with: a
\* return of the parsed value or of null, or, when JSON.parse throws outside
\* the loop over the repairs, an exception.
Returning(p) == [ok |-> p.ok, val |-> p.val, threw |-> FALSE]

Escaping(p) == [ok |-> p.ok, val |-> p.val, threw |-> ~p.ok]

\* A body that goes on to the repairs when the complete object does not parse.
RepairObjectFallingBack(jsonStr, startIndex, ends) ==
    IF startIndex = 0 THEN Returning(Null)
    ELSE IF ends # {} /\ JsonParse(SubSeq(jsonStr, startIndex, MinOf(ends))).ok
         THEN Returning(JsonParse(SubSeq(jsonStr, startIndex, MinOf(ends))))
         ELSE Returning(TryRepairs(SubSeq(jsonStr, startIndex, Len(jsonStr))))

\* The object that starts at startIndex: parsed as it is when it is complete
\* (a SyntaxError there leaves the try block), repaired when it is not.
RepairObject(jsonStr, startIndex, ends) ==
    IF startIndex = 0 THEN Returning(Null)
    ELSE IF ends # {}
         THEN Escaping(JsonParse(SubSeq(jsonStr, startIndex, MinOf(ends))))
         ELSE Returning(TryRepairs(SubSeq(jsonStr, startIndex, Len(jsonStr))))

RepairFrom(jsonStr, startIndex) ==
    RepairObject(jsonStr, startIndex, Balanced(jsonStr, startIndex))

\* A function body without the outer try and catch.
OuterCatchMissing(r) == r

\* The outer catch: whatever was thrown in the body is logged and null
\* returned.
OuterCatch(r) == IF r.threw THEN Returning(Null) ELSE r

\* repairTruncatedJson(response): the parsed value, or Null.
RepairTruncatedJson(response) ==
    OuterCatch(RepairFrom(Trim(response), IndexOf(Trim(response), <<"{">>, 1)))

\* An order of the strategies that looks for any fence before the json fence.
FirstMatchAnyFenceFirst(m1, m2, m3, whole) ==
    IF m2.found THEN [via |-> "code_fence", text |-> m2.text]
    ELSE IF m1.found THEN [via |-> "json_fence", text |-> m1.text]
    ELSE IF m3.found THEN [via |-> "braces", text |-> m3.text]
    ELSE [via |-> "whole", text |-> whole]

\* The first of the four strategies whose pattern matches (the whole trimmed
\* response if none).
FirstMatch(m1, m2, m3, whole) ==
    IF m1.found THEN [via |-> "json_fence", text |-> m1.text]
    ELSE IF m2.found THEN [via |-> "code_fence", text |-> m2.text]
    ELSE IF m3.found THEN [via |-> "braces", text |-> m3.text]
    ELSE [via |-> "whole", text |-> whole]

\* The candidate the try block hands to JSON.parse.
Candidate(response) ==
    FirstMatch(FencedCandidate(response, JsonFence), FencedCandidate(response, Fence),
               BraceCandidate(response), Trim(response))

NoError == [kind |-> "none", cause |-> "none"]

\* logError('JSON parsing failed, attempting repair', ...): the number of
\* characters of the response put in the log entry.
LogPreviewLength == 1000

\* logInfo('LLM Response received', ...): the length of responsePreview.
ReceivedPreviewLength == 200

\* response.substring(0, n)
Substring(response, n) == SubSeq(response, 1, IF Len(response) < n THEN Len(response) ELSE n)

\* One entry of the log; preview is the part of the response put in it.
LogEntry(level, message, preview) ==
    [level |-> level, message |-> message, preview |-> preview]

\* The logInfo call of the strategy whose pattern matched.
FoundMessage(via) ==
    IF via = "json_fence" THEN "Found JSON in markdown code block"
    ELSE IF via = "code_fence" THEN "Found JSON in generic code block"
    ELSE IF via = "braces" THEN "Found JSON object in response"
    ELSE "Attempting to parse entire response as JSON"

\* The result r with the entries written before it was reached.
Logged(entries, r) == [r EXCEPT !.log = entries \o @]

\* The error of the last throw: its message is the fixed prefix followed by
\* the message of the SyntaxError JSON.parse threw, which the engine writes
\* from the text it was given (source) and from nothing else.
ParseFailed(source) ==
    [kind |-> "ParseFailed", cause |-> "SyntaxError", source |-> source]

\* A catch block that hands back whatever the repair produced.
AfterRepairUnchecked(repairedJson, source) ==
    [ok |-> TRUE, val |-> repairedJson.val, via |-> "repair", err |-> NoError,
     log |-> <<LogEntry("info", "Successfully repaired truncated JSON", <<>>)>>]

\* The catch block after the repair: the repaired value if there is one,
\* the error otherwise.
AfterRepair(repairedJson, source) ==
    IF repairedJson.ok
    THEN [ok |-> TRUE, val |-> repairedJson.val, via |-> "repair", err |-> NoError,
          log |-> <<LogEntry("info", "Successfully repaired truncated JSON", <<>>)>>]
    ELSE [ok |-> FALSE, val |-> NoVal, via |-> "none", err |-> ParseFailed(source),
          log |-> <<>>]

\* A catch block that attempts the repair without logging the failure.
CatchUnlogged(response, source) ==
    AfterRepair(RepairTruncatedJson(response), source)

\* The catch block: the failure is logged with the first 1000 characters of
\* the response, then the repair is attempted.
Catch(response, source) ==
    Logged(<<LogEntry("error", "JSON parsing failed, attempting repair",
                      Substring(response, LogPreviewLength))>>,
           AfterRepair(RepairTruncatedJson(response), source))

\* A try block whose catch throws without attempting the repair.
AfterParseWithoutRepair(response, c, p) ==
    IF p.ok THEN [ok |-> TRUE, val |-> p.val, via |-> c.via, err |-> NoError, log |-> <<>>]
    ELSE [ok |-> FALSE, val |-> NoVal, via |-> "none", err |-> ParseFailed(c.text),
          log |-> <<>>]

\* The try block: the parse p of the candidate c is returned; if JSON.parse
\* threw, the catch block takes over.
AfterParse(response, c, p) ==
    IF p.ok THEN [ok |-> TRUE, val |-> p.val, via |-> c.via, err |-> NoError, log |-> <<>>]
    ELSE Catch(response, c.text)

\* The matching strategy logs what it found and parses its candidate.
ParseCandidate(response, c) ==
    Logged(<<LogEntry("info", FoundMessage(c.via), <<>>)>>,
           AfterParse(response, c, JsonParse(c.text)))

\* The check for an empty response, then the extraction.
CheckedResponse(response) ==
    IF Trim(response) = <<>>
    THEN [ok |-> FALSE, val |-> NoVal, via |-> "none",
          err |-> [kind |-> "EmptyResponse", cause |-> "LLM returned empty response"],
          log |-> <<LogEntry("error", "Empty response from LLM", <<>>)>>]
    ELSE ParseCandidate(response, Candidate(response))

\* A handling of the response that goes to the extraction unchecked.
ParseResponseUnchecked(response) ==
    Logged(<<LogEntry("info", "LLM Response received",
                      Substring(response, ReceivedPreviewLength))>>,
           ParseCandidate(response, Candidate(response)))

\* What generateStructuredResponse does with the provider's text: the value
\* it returns or the error it throws, the path taken and the log written.
ParseResponse(response) ==
    Logged(<<LogEntry("info", "LLM Response received",
                      Substring(response, ReceivedPreviewLength))>>,
           CheckedResponse(response))

(***************************************************************************)
(* Provider responses (a backtick is written as an apostrophe)             *)
(***************************************************************************)

\* a bare JSON object
RespPlain ==
    <<"{", "\"", "a", "\"", ":", "1", "}">>

\* a bare object holding a two-element list
RespList ==
    <<"{", "\"", "a", "\"", ":", "[", "1", ",", "1", "]", "}">>

\* an object with none of the requested fields
RespEmptyObject ==
    <<"{", "}">>

\* an object inside a json-tagged fence
RespJsonFenced ==
    <<"'", "'", "'", "j", "s", "o", "n", " ", "{", "\"", "a", "\"", ":", "1",
      "}", " ", "'", "'", "'">>

\* an object inside an untagged fence
RespFenced ==
    <<"'", "'", "'", " ", "{", "\"", "a", "\"", ":", "[", "1", "]", "}", " ",
      "'", "'", "'">>

\* an object surrounded by prose
RespProse ==
    <<"a", " ", "{", "\"", "a", "\"", ":", "1", "}", " ", "a">>

\* a bare object followed by a json-tagged fence
RespTwoObjects ==
    <<"{", "\"", "s", "\"", ":", "1", "}", " ", "'", "'", "'", "j", "s", "o",
      "n", " ", "{", "\"", "a", "\"", ":", "1", "}", " ", "'", "'", "'">>

\* the empty string
RespEmpty ==
    <<>>

\* white space only
RespBlank ==
    <<" ">>

\* prose without any JSON
RespNoJson ==
    <<"a", " ", "a">>

\* cut off after a comma inside a list
RespTruncList ==
    <<"{", "\"", "a", "\"", ":", "[", "1", ",">>

\* cut off inside a string
RespTruncString ==
    <<"{", "\"", "a", "\"", ":", "\"", "s">>

\* cut off inside an object inside a list
RespTruncNested ==
    <<"{", "\"", "a", "\"", ":", "[", "{", "\"", "s", "\"", ":", "1">>

\* a closing brace inside a string, then prose
RespBraceInString ==
    <<"{", "\"", "a", "\"", ":", "\"", "}", "\"", "}", " ", "a">>

\* a json-tagged fence holding prose, then an object
RespBadFence ==
    <<"'", "'", "'", "j", "s", "o", "n", " ", "a", " ", "'", "'", "'", " ",
      "{", "\"", "a", "\"", ":", "1", "}">>

\* a json-tagged fence holding prose, then an object with a closing brace
\* inside a string
RespBadFenceBrace ==
    <<"'", "'", "'", "j", "s", "o", "n", " ", "a", " ", "'", "'", "'", " ",
      "{", "\"", "a", "\"", ":", "\"", "}", "\"", "}">>

\* a json-tagged fence holding an object, then another object
RespFenceThenObject ==
    <<"'", "'", "'", "j", "s", "o", "n", " ", "{", "\"", "a", "\"", ":", "1", "}",
      " ", "'", "'", "'", " ", "{", "\"", "s", "\"", ":", "1", "}">>

\* prose of one character more than the log entry of a parse failure holds
RespLong ==
    [i \in 1..(LogPreviewLength + 1) |-> IF i = LogPreviewLength + 1 THEN "s" ELSE "a"]

\* an object with a list and a string field
RespFull ==
    <<"{", "\"", "a", "\"", ":", "[", "1", "]", ",", "\"", "s", "\"", ":", "\"", "a", "\"", "}">>

\* an object holding an object of two empty lists
RespNested ==
    <<"{", "\"", "a", "\"", ":", "{", "\"", "a", "\"", ":", "[", "]", ",", "\"", "s", "\"", ":", "[", "]", "}", "}">>

\* an object of two empty lists
RespTwoLists ==
    <<"{", "\"", "a", "\"", ":", "[", "]", ",", "\"", "s", "\"", ":", "[", "]", "}">>

Responses ==
    {RespPlain, RespList, RespEmptyObject, RespJsonFenced,
     RespFenced, RespProse, RespTwoObjects, RespEmpty,
     RespBlank, RespNoJson, RespTruncList, RespTruncString,
     RespTruncNested, RespBraceInString, RespBadFence,
     RespBadFenceBrace, RespFenceThenObject, RespLong, RespFull,
     RespNested, RespTwoLists}

(***************************************************************************)
(* LLMClient: one generateStructuredResponse call, step by step            *)
(***************************************************************************)

\* generateStructuredResponse: maxPromptLength
MaxPromptLength == 100000

\* generateResponse: const { retries = 2 } = options || {}
DefaultRetries == 2

\* The setTimeout unit of the wait between attempts, in ms.
BackoffUnit == 1000

\* The LLMClient configurations: the configured provider, and which clients
\* initializeClients built (one per API key found in the environment).
ClientConfigs ==
    [provider : {"gemini", "anthropic"}, gemini : BOOLEAN, anthropic : BOOLEAN]

\* A choice that prefers the Gemini client whatever provider is configured.
SelectClientGeminiFirst(cfg) ==
    IF cfg.gemini THEN "gemini"
    ELSE IF cfg.anthropic THEN "anthropic"
    ELSE "none"

\* The client one attempt of generateResponse invokes: the configured
\* provider's when it was initialised, else whichever client exists.
SelectClient(cfg) ==
    IF cfg.provider = "gemini" /\ cfg.gemini THEN "gemini"
    ELSE IF cfg.provider = "anthropic" /\ cfg.anthropic THEN "anthropic"
    ELSE IF cfg.gemini THEN "gemini"
    ELSE IF cfg.anthropic THEN "anthropic"
    ELSE "none"

\* A call that has not been made.
NoCall ==
    [pc |-> "idle", promptLength |-> 0,
     cfg |-> [provider |-> "gemini", gemini |-> FALSE, anthropic |-> FALSE],
     retries |-> DefaultRetries, attempt |-> 0, invoked |-> <<>>, waits |-> <<>>,
     failures |-> <<>>, response |-> <<>>, received |-> FALSE,
     outcome |-> "none", value |-> NoVal, via |-> "none", error |-> NoError,
     log |-> <<>>]

\* The call a stage is about to make with a prompt of the given length.
NewCall(promptLength, cfg) ==
    [NoCall EXCEPT !.promptLength = promptLength, !.cfg = cfg]

\* generateStructuredResponse's catch around generateText: the error that
\* ended generateResponse is wrapped and thrown.
GenerationFailed(c, message) ==
    [c EXCEPT !.pc = "done", !.outcome = "threw",
              !.error = [kind |-> "LLMGenerationFailed", cause |-> message]]

\* A back-off of the same length after every failed attempt.
BackoffConstant(attempt) == BackoffUnit

\* 1000 * (attempt + 1): the milliseconds slept after the failed attempt
\* (0-based).
Backoff(attempt) == BackoffUnit * (attempt + 1)

\* A catch block that allows one attempt more than the loop bound.
AttemptFailedOnceMore(c, message) ==
    LET failed == [c EXCEPT !.failures = Append(@, [attempt |-> c.attempt, message |-> message])]
    IN  IF c.attempt = c.retries + 1
        THEN GenerationFailed(failed, message)
        ELSE [failed EXCEPT !.pc = "waiting",
                            !.waits = Append(@, Backoff(c.attempt))]

\* generateResponse's catch block after attempt c.attempt (0-based) failed
\* with the given message: rethrow after the last attempt, else sleep
\* 1000 * (attempt + 1) ms.
AttemptFailed(c, message) ==
    LET failed == [c EXCEPT !.failures = Append(@, [attempt |-> c.attempt, message |-> message])]
    IN  IF c.attempt = c.retries
        THEN GenerationFailed(failed, message)
        ELSE [failed EXCEPT !.pc = "waiting",
                            !.waits = Append(@, Backoff(c.attempt))]

\* An iteration that starts its request twice without awaiting the first.
StartAttemptTwice(c) ==
    LET client == SelectClient(c.cfg)
    IN  IF client = "none"
        THEN AttemptFailed(c, "No LLM provider available")
        ELSE [c EXCEPT !.pc = "invoking",
                       !.invoked = @ \o <<[attempt |-> c.attempt, client |-> client],
                                          [attempt |-> c.attempt, client |-> client]>>]

\* The try block of one loop iteration up to its await: the chosen client's
\* invoke is started, or the iteration throws for want of any client.
StartAttempt(c) ==
    LET client == SelectClient(c.cfg)
    IN  IF client = "none"
        THEN AttemptFailed(c, "No LLM provider available")
        ELSE [c EXCEPT !.pc = "invoking",
                       !.invoked = Append(@, [attempt |-> c.attempt, client |-> client])]

\* An entry whose size check also rejects a prompt of exactly the limit.
BeginCallInclusive(c) ==
    IF c.promptLength >= MaxPromptLength
    THEN [c EXCEPT !.pc = "done", !.outcome = "threw",
                   !.error = [kind |-> "PromptTooLarge", cause |-> "Prompt is too large"]]
    ELSE StartAttempt([c EXCEPT !.attempt = 0, !.retries = DefaultRetries])

\* The entry of generateStructuredResponse: the size check, then
\* generateText and the first iteration of generateResponse's loop.
BeginCall(c) ==
    IF c.promptLength > MaxPromptLength
    THEN [c EXCEPT !.pc = "done", !.outcome = "threw",
                   !.error = [kind |-> "PromptTooLarge", cause |-> "Prompt is too large"]]
    ELSE StartAttempt([c EXCEPT !.attempt = 0, !.retries = DefaultRetries])

\* A timer whose firing does not start the next iteration.
BackoffLost(c) == [c EXCEPT !.pc = "lost"]

\* The timer fired: attempt++ and the next iteration.
BackoffElapsed(c) == StartAttempt([c EXCEPT !.attempt = @ + 1])

\* An ending that treats a text without usable JSON as one more failed
\* attempt of the loop.
SettledOrRetried(c, text, r) ==
    IF r.ok
    THEN [c EXCEPT !.pc = "done", !.response = text, !.received = TRUE,
                   !.outcome = "returned", !.value = r.val, !.via = r.via,
                   !.error = r.err, !.log = r.log]
    ELSE AttemptFailed([c EXCEPT !.response = text, !.received = TRUE, !.log = r.log],
                       r.err.cause)

\* The call ends with r, the value returned or the error thrown for text.
Settled(c, text, r) ==
    [c EXCEPT !.pc = "done", !.response = text, !.received = TRUE,
              !.outcome = IF r.ok THEN "returned" ELSE "threw",
              !.value = r.val, !.via = r.via, !.error = r.err, !.log = r.log]

\* A handling of the text that skips the extraction in a call whose earlier
\* attempts failed.
ProviderReturnedAfterFailures(c, text) ==
    Settled(c, text, IF c.failures = <<>> THEN ParseResponse(text) ELSE Catch(text, text))

\* The awaited invoke resolved with text: generateResponse and generateText
\* return it, and generateStructuredResponse checks, extracts and repairs.
ProviderReturned(c, text) == Settled(c, text, ParseResponse(text))

\* The awaited invoke rejected with the given message.
ProviderThrew(c, message) == AttemptFailed(c, message)

(***************************************************************************)
(* ClientSpec: one generateStructuredResponse call against a provider that *)
(* answers with any text of the pool or throws                             *)
(***************************************************************************)

\* What a failing provider request reports.
ProviderErrors == {"rate limit exceeded", "service unavailable"}

\* Prompt sizes: an ordinary one and the two around the limit.
PromptLengths == {1, MaxPromptLength, MaxPromptLength + 1}

\* Values of the state the client does not touch.
NoPipe == [kind |-> "none"]

NoRecords == <<>>

NoTasks == <<>>

ClientInit ==
    /\ call \in {NewCall(n, cfg) : n \in PromptLengths, cfg \in ClientConfigs}
    /\ pipe = NoPipe
    /\ analysisResults = NoRecords
    /\ tasks = NoTasks
    /\ nextId = 1

\* generateStructuredResponse is entered.
CallStart ==
    /\ call.pc = "idle"
    /\ call' = BeginCall(call)
    /\ UNCHANGED <<pipe, analysisResults, tasks, nextId>>

\* The provider answers the pending request.
ProviderReturns ==
    /\ call.pc = "invoking"
    /\ \E text \in Responses : call' = ProviderReturned(call, text)
    /\ UNCHANGED <<pipe, analysisResults, tasks, nextId>>

\* The pending request fails.
ProviderThrows ==
    /\ call.pc = "invoking"
    /\ \E message \in ProviderErrors : call' = ProviderThrew(call, message)
    /\ UNCHANGED <<pipe, analysisResults, tasks, nextId>>

\* The back-off timer fires.
BackoffElapses ==
    /\ call.pc = "waiting"
    /\ call' = BackoffElapsed(call)
    /\ UNCHANGED <<pipe, analysisResults, tasks, nextId>>

ClientNext == CallStart \/ ProviderReturns \/ ProviderThrows \/ BackoffElapses

ClientSpec == ClientInit /\ [][ClientNext]_vars

(***************************************************************************)
(* SessionSpec: successive generateStructuredResponse calls on one client  *)
(***************************************************************************)

\* The number of calls made on the client.
MaxCalls == 2

\* What a call that received the provider's text ended with.
OutcomeOf(c) ==
    [response |-> c.response, outcome |-> c.outcome, value |-> c.value,
     error |-> c.error]

\* The outcomes of the earlier calls, with the call that has ended among them.
Settling(settled, c) == IF c.received THEN settled \cup {OutcomeOf(c)} ELSE settled

\* The clients of the sessions: Gemini configured, with or without its key.
SessionConfigs == {cfg \in ClientConfigs : cfg.provider = "gemini" /\ ~cfg.anthropic}

SessionInit ==
    /\ call \in {NewCall(1, cfg) : cfg \in SessionConfigs}
    /\ pipe = [kind |-> "session", calls |-> 1, settled |-> {}]
    /\ analysisResults = NoRecords
    /\ tasks = NoTasks
    /\ nextId = 1

\* The caller makes its next call on the same LLMClient.
NextCall ==
    /\ call.pc = "done"
    /\ pipe.calls < MaxCalls
    /\ pipe' = [pipe EXCEPT !.calls = @ + 1, !.settled = Settling(@, call)]
    /\ call' = NewCall(call.promptLength, call.cfg)
    /\ UNCHANGED <<analysisResults, tasks, nextId>>

SessionNext ==
    CallStart \/ ProviderReturns \/ ProviderThrows \/ BackoffElapses \/ NextCall

SessionSpec == SessionInit /\ [][SessionNext]_vars

(***************************************************************************)
(* RepairSpec: repairTruncatedJson applied to serialised objects that were *)
(* cut off in their second half                                            *)
(***************************************************************************)

\* The largest number of members of an object and of elements of a list.
MaxMembers == 2

MaxElements == 2

\* The sequences over S of length up to n.
SeqsUpTo(S, n) == UNION {[1..k -> S] : k \in 0..n}

\* Objects as a program holds them before serialising: the members in the
\* order of their insertion.
JsString(chars) == [t |-> "str", v |-> chars]

JsNumber(digits) == [t |-> "num", v |-> digits]

JsArray(elements) == [t |-> "arr", v |-> elements]

JsObject(members) == [t |-> "obj", m |-> members]

ObjectKeys == {<<"a">>, <<"s">>}

\* Strings, among them some that hold the characters the repair counts.
StringTexts == {<<>>, <<"a">>, <<"}">>, <<"{">>, <<"[">>, <<",">>}

Scalars ==
    {JsString(chars) : chars \in StringTexts}
        \cup {JsNumber(<<"1">>), JsNumber(<<"1", "1">>)}

InnerObjects ==
    {JsObject(<<>>), JsObject(<<[k |-> <<"s">>, x |-> JsNumber(<<"1">>)]>>)}

\* Lists of strings, numbers and objects.
Arrays ==
    {JsArray(q) : q \in SeqsUpTo({JsString(<<"a">>), JsNumber(<<"1">>),
                                  JsObject(<<[k |-> <<"s">>, x |-> JsNumber(<<"1">>)]>>)},
                                 MaxElements)}

MemberValues == Scalars \cup Arrays \cup InnerObjects

\* The objects of up to MaxMembers members with distinct keys.
Objects ==
    {JsObject(q) : q \in {q \in SeqsUpTo([k : ObjectKeys, x : MemberValues], MaxMembers) :
                            \A i, j \in DOMAIN q : q[i].k = q[j].k => i = j}}

RECURSIVE Stringify(_), JoinValues(_), JoinMembers(_)

\* JSON.stringify(x): no white space, the members in their order.
Stringify(x) ==
    IF x.t = "str" THEN <<"\"">> \o x.v \o <<"\"">>
    ELSE IF x.t = "num" THEN x.v
    ELSE IF x.t = "arr" THEN <<"[">> \o JoinValues(x.v) \o <<"]">>
    ELSE <<"{">> \o JoinMembers(x.m) \o <<"}">>

JoinValues(q) ==
    IF q = <<>> THEN <<>>
    ELSE Stringify(Head(q))
             \o (IF Tail(q) = <<>> THEN <<>> ELSE <<",">> \o JoinValues(Tail(q)))

JoinMembers(q) ==
    IF q = <<>> THEN <<>>
    ELSE <<"\"">> \o Head(q).k \o <<"\"", ":">> \o Stringify(Head(q).x)
             \o (IF Tail(q) = <<>> THEN <<>> ELSE <<",">> \o JoinMembers(Tail(q)))

\* The keys of an object.
KeysOf(x) == {x.m[i].k : i \in DOMAIN x.m}

\* The member of x with the given key.
MemberOf(x, key) == x.m[CHOOSE i \in DOMAIN x.m : x.m[i].k = key].x

\* The value JSON.parse yields for the serialised x.
RECURSIVE ValueOf(_)
ValueOf(x) ==
    IF x.t = "obj"
    THEN [t |-> "obj", v |-> [key \in KeysOf(x) |-> ValueOf(MemberOf(x, key))]]
    ELSE IF x.t = "arr"
         THEN [t |-> "arr", v |-> [i \in DOMAIN x.v |-> ValueOf(x.v[i])]]
         ELSE x

\* The offsets at or beyond half the length of text.
Offsets(text) == {k \in 0..Len(text) : 2 * k >= Len(text)}

RepairInit ==
    /\ call = NoCall
    /\ pipe \in {[kind |-> "repair", pc |-> "serialised", original |-> x,
                  text |-> Stringify(x), result |-> Returning(Null)] : x \in Objects}
    /\ analysisResults = NoRecords
    /\ tasks = NoTasks
    /\ nextId = 1

\* The serialised text is cut off.
Truncate ==
    /\ pipe.pc = "serialised"
    /\ \E k \in Offsets(pipe.text) :
           pipe' = [pipe EXCEPT !.pc = "truncated", !.text = SubSeq(@, 1, k)]
    /\ UNCHANGED <<call, analysisResults, tasks, nextId>>

\* repairTruncatedJson is called with the text.
Repair ==
    /\ pipe.pc = "truncated"
    /\ pipe' = [pipe EXCEPT !.pc = "repaired", !.result = RepairTruncatedJson(pipe.text)]
    /\ UNCHANGED <<call, analysisResults, tasks, nextId>>

RepairNext == Truncate \/ Repair

RepairSpec == RepairInit /\ [][RepairNext]_vars

(***************************************************************************)
(* A whole call at once: the steps above applied until the call is done    *)
(***************************************************************************)

\* What the provider does with the successive requests of one call.
Rejects(message) == [throws |-> TRUE, text |-> <<>>, message |-> message]

Resolves(text) == [throws |-> FALSE, text |-> text, message |-> "none"]

\* The texts the provider answers a stage's request with.
StageResponses ==
    {RespFull, RespTwoLists, RespPlain, RespEmptyObject, RespNested, RespNoJson}

\* The provider answers at once, answers the second request, or never does.
Behaviours ==
    {<<Resolves(text)>> : text \in StageResponses}
        \cup {<<Rejects("rate limit exceeded"), Resolves(RespFull)>>}
        \cup {<<Rejects("rate limit exceeded"), Rejects("service unavailable"),
                Rejects("service unavailable")>>}

\* generateStructuredResponse from entry to return or throw, the provider
\* behaving as beh says.
RECURSIVE RunCall(_, _)
RunCall(c, beh) ==
    IF c.pc = "idle" THEN RunCall(BeginCall(c), beh)
    ELSE IF c.pc = "waiting" THEN RunCall(BackoffElapsed(c), beh)
    ELSE IF c.pc = "invoking" /\ beh # <<>>
         THEN IF Head(beh).throws
              THEN RunCall(ProviderThrew(c, Head(beh).message), Tail(beh))
              ELSE RunCall(ProviderReturned(c, Head(beh).text), Tail(beh))
    ELSE c

\* The agents construct their client with provider 'gemini'; whether the
\* client exists depends on the API key of the environment (no Anthropic key
\* is set here).
AgentConfigs == {cfg \in ClientConfigs : cfg.provider = "gemini" /\ ~cfg.anthropic}

\* Every way a call of an agent can end, by configuration and prompt length.
CallOutcomes ==
    [cfg \in AgentConfigs, n \in PromptLengths |->
        {RunCall(NewCall(n, cfg), beh) : beh \in Behaviours}]

(***************************************************************************)
(* JavaScript values in the agents' state                                  *)
(***************************************************************************)

Undefined == [t |-> "undefined", v |-> <<>>]

EmptyArray == [t |-> "arr", v |-> <<>>]

\* value.key: undefined unless value is an object that has the key.
Get(value, key) ==
    IF value.t = "obj" /\ key \in DOMAIN value.v THEN value.v[key] ELSE Undefined

\* Truthiness: undefined and the empty string are falsy (the numbers of the
\* alphabet are not zero).
Truthy(value) == ~(value.t = "undefined" \/ (value.t = "str" /\ value.v = <<>>))

\* value || otherwise
OrElse(value, otherwise) == IF Truthy(value) THEN value ELSE otherwise

IsArray(value) == value.t = "arr"

\* A stage that returns a metadata object holding only its own fields.
MergeWithoutSpread(metadata, fields) == fields

\* The fields of a state that the spread of a new metadata object overrides.
Merge(metadata, fields) ==
    [k \in (DOMAIN metadata) \cup (DOMAIN fields) |->
        IF k \in DOMAIN fields THEN fields[k] ELSE metadata[k]]

\* The keys of the response that stand for the fields of a stage's schema,
\* in the order the schema lists them.
Key1 == <<"a">>

Key2 == <<"s">>

Key3 == <<"n">>

Key4 == <<"o">>

Key5 == <<"j">>

(***************************************************************************)
(* The agents: the state a stage receives and returns                      *)
(***************************************************************************)

\* A string of the agents' own.
Text(s) == [t |-> "str", v |-> <<s>>]

\* A list of the agents' own.
List(elements) == [t |-> "arr", v |-> elements]

\* A number of the agents' own.
Number(n) == [t |-> "number", v |-> n]

\* value.length: the length of a list or a string, undefined (-1) otherwise.
LengthOf(value) == IF value.t \in {"arr", "str"} THEN Len(value.v) ELSE -1

\* state.metadata[key]
Meta(state, key) ==
    IF key \in DOMAIN state.metadata THEN state.metadata[key] ELSE Undefined

\* A value a rule-based computation of the agents produced.
Computed(by, size) == [t |-> "computed", v |-> <<by, size>>]

\* The state analyze() starts from.  input is what analyze() was given, has
\* holds the optional fields that are set, llm and fallbacks record the calls
\* and the rule-based substitutes the stages made, exception is the error
\* that escaped a stage.
InitialState(currentStep, input) ==
    [input |-> input, currentStep |-> currentStep, progress |-> 0, errors |-> <<>>,
     metadata |-> <<>>, has |-> {}, result |-> Undefined,
     llm |-> <<>>, fallbacks |-> <<>>, exception |-> "none"]

\* A catch block that sets the progress back to zero whatever the stage.
StageFailedFromZero(state, currentStep, message, cause, progress) ==
    [state EXCEPT !.errors = Append(@, [message |-> message, cause |-> cause]),
                  !.currentStep = currentStep, !.progress = 0]

\* A stage's catch block: the message is appended to errors.
StageFailed(state, currentStep, message, cause, progress) ==
    [state EXCEPT !.errors = Append(@, [message |-> message, cause |-> cause]),
                  !.currentStep = currentStep, !.progress = progress]

\* A stage's return: the spread of the state with the new fields.
StageDone(state, currentStep, progress, fields) ==
    [state EXCEPT !.currentStep = currentStep, !.progress = progress,
                  !.metadata = Merge(@, fields)]

\* The state after one generateStructuredResponse call of a stage.
Called(state, step, tier, ai) ==
    [state EXCEPT !.llm = Append(@, [step |-> step, tier |-> tier,
                                     requests |-> Len(ai.invoked),
                                     received |-> ai.received,
                                     outcome |-> ai.outcome])]

\* The state after a stage computed a rule-based substitute.
Fallback(state, step, name) ==
    [state EXCEPT !.fallbacks = Append(@, [step |-> step, name |-> name])]

(***************************************************************************)
(* GitHubRepoAnalyzerAgent                                                 *)
(***************************************************************************)

FetchRepository(state, ok) ==
    IF ok
    THEN [StageDone(state, "fetch_repository", 25, <<>>) EXCEPT
              !.has = @ \cup {"repository"}]
    ELSE StageFailed(state, "fetch_repository", "Failed to fetch repository",
                     "request failed", 0)

AnalyzeFiles(state, ok) ==
    IF "repository" \notin state.has
    THEN StageFailed(state, "analyze_files", "Failed to analyze files",
                     "Repository information not available", 25)
    ELSE IF ok
    THEN [StageDone(state, "analyze_files", 50, <<>>) EXCEPT !.has = @ \cup {"files"}]
    ELSE StageFailed(state, "analyze_files", "Failed to analyze files",
                     "request failed", 25)

CategorizeStructure(state) ==
    IF "files" \notin state.has
    THEN StageFailed(state, "categorize_structure", "Failed to categorize structure",
                     "Files not available", 50)
    ELSE [StageDone(state, "categorize_structure", 75, <<>>) EXCEPT
              !.has = @ \cup {"fileStructure"}]

\* A summary stage that substitutes a rule-based summary for a failed call.
SummaryReceivedWithFallback(state, ai) ==
    [StageDone(Fallback(state, "generate_summary", "rule-based summary"),
               "generate_summary", 100, <<>>) EXCEPT
         !.has = @ \cup {"repositoryAnalysis"},
         !.result = [summary |-> IF ai.outcome = "threw"
                                 THEN Computed("summary", 0) ELSE ai.value]]

\* The summary has no rule-based substitute: a failed call is an error.
SummaryReceived(state, ai) ==
    IF ai.outcome = "threw"
    THEN StageFailed(state, "generate_summary", "Failed to generate summary",
                     ai.error.kind, 75)
    ELSE [StageDone(state, "generate_summary", 100, <<>>) EXCEPT
              !.has = @ \cup {"repositoryAnalysis"},
              !.result = [summary |-> ai.value]]

GenerateSummary(state, ai) ==
    IF ~({"repository", "fileStructure"} \subseteq state.has)
    THEN StageFailed(state, "generate_summary", "Failed to generate summary",
                     "Repository or file structure not available", 75)
    ELSE SummaryReceived(Called(state, "generate_summary", "full", ai), ai)

(***************************************************************************)
(* ArchitectureInferenceAgent                                              *)
(***************************************************************************)

UpperCaseLetters ==
    <<"A", "B", "C", "D", "E", "F", "G", "H", "I", "J", "K", "L", "M", "N",
      "O", "P", "Q", "R", "S", "T", "U", "V", "W", "X", "Y", "Z">>

LowerCaseLetters ==
    <<"a", "b", "c", "d", "e", "f", "g", "h", "i", "j", "k", "l", "m", "n",
      "o", "p", "q", "r", "s", "t", "u", "v", "w", "x", "y", "z">>

\* String.toLowerCase
ToLowerCase(s) ==
    [i \in 1..Len(s) |->
        IF \E k \in 1..Len(UpperCaseLetters) : UpperCaseLetters[k] = s[i]
        THEN LowerCaseLetters[CHOOSE k \in 1..Len(UpperCaseLetters) :
                                  UpperCaseLetters[k] = s[i]]
        ELSE s[i]]

\* String.includes
Includes(s, pat) == \E i \in 1..Len(s) : OccursAt(s, pat, i)

\* s.split(sep).length for a separator of one character
SplitLength(s, sep) == Cardinality({i \in 1..Len(s) : s[i] = sep}) + 1

\* files.some(f => f.path.toLowerCase().includes(keyword)) for one of the
\* keywords.
SomePathIncludes(files, keywords) ==
    \E f \in files, keyword \in keywords : Includes(ToLowerCase(f.path), keyword)

\* patterns.push(name) if the condition holds.
PushIf(condition, name) == IF condition THEN <<Text(name)>> ELSE <<>>

\* A detector that looks for the layers before it looks for MVC.
AnalyzeStructuralPatternsLayersFirst(fileStructure) ==
    PushIf(SomePathIncludes(fileStructure.files,
               {<<"s", "e", "r", "v", "i", "c", "e">>,
                <<"r", "e", "p", "o", "s", "i", "t", "o", "r", "y">>,
                <<"d", "a", "o">>}),
           "Layered")
    \o PushIf(/\ SomePathIncludes(fileStructure.files,
                      {<<"c", "o", "n", "t", "r", "o", "l", "l", "e", "r">>,
                       <<"h", "a", "n", "d", "l", "e", "r", "s">>})
              /\ SomePathIncludes(fileStructure.files,
                      {<<"m", "o", "d", "e", "l">>,
                       <<"e", "n", "t", "i", "t", "y">>})
              /\ SomePathIncludes(fileStructure.files,
                      {<<"v", "i", "e", "w">>,
                       <<"t", "e", "m", "p", "l", "a", "t", "e">>}),
              "MVC")

AnalyzeStructuralPatterns(fileStructure) ==
    PushIf(/\ SomePathIncludes(fileStructure.files,
                   {<<"c", "o", "n", "t", "r", "o", "l", "l", "e", "r">>,
                    <<"h", "a", "n", "d", "l", "e", "r", "s">>})
           /\ SomePathIncludes(fileStructure.files,
                   {<<"m", "o", "d", "e", "l">>,
                    <<"e", "n", "t", "i", "t", "y">>})
           /\ SomePathIncludes(fileStructure.files,
                   {<<"v", "i", "e", "w">>,
                    <<"t", "e", "m", "p", "l", "a", "t", "e">>}),
           "MVC")
    \o PushIf(SomePathIncludes(fileStructure.files,
                  {<<"s", "e", "r", "v", "i", "c", "e">>,
                   <<"r", "e", "p", "o", "s", "i", "t", "o", "r", "y">>,
                   <<"d", "a", "o">>}),
              "Layered")
    \o PushIf(\/ \E f \in fileStructure.files :
                     ToLowerCase(f.name) \in
                         {<<"d", "o", "c", "k", "e", "r", "f", "i", "l", "e">>,
                          <<"d", "o", "c", "k", "e", "r", "-", "c", "o", "m",
                            "p", "o", "s", "e", ".", "y", "m", "l">>}
              \/ \E f \in fileStructure.files :
                     /\ Includes(ToLowerCase(f.path),
                                 <<"s", "e", "r", "v", "i", "c", "e">>)
                     /\ SplitLength(f.path, "/") > 2,
              "Microservices")
    \o PushIf(SomePathIncludes(fileStructure.files,
                  {<<"c", "o", "m", "p", "o", "n", "e", "n", "t">>,
                   <<"m", "o", "d", "u", "l", "e">>}),
              "Component-Based")

\* p.confidence === 'high' || p.confidence === 'medium', the two levels
\* written "a" and "s"; confidence is the key Key2 of a pattern.
Confident(p) == Get(p, Key2) \in {[t |-> "str", v |-> <<"a">>], [t |-> "str", v |-> <<"s">>]}

\* detectedPatterns.filter(...).map(p => p.pattern), pattern being Key1.
PatternNames(detectedPatterns) ==
    [i \in 1..Len(SelectSeq(detectedPatterns, Confident)) |->
        Get(SelectSeq(detectedPatterns, Confident)[i], Key1)]

\* detectPatternsWithAI: the pattern names, or the error it rethrows (the
\* call threw, response.detectedPatterns, key Key1, has no filter method, or
\* response.reasoning, key Key2, has no substring method).
DetectPatternsWithAI(ai) ==
    IF ai.outcome = "threw" THEN [ok |-> FALSE, patterns |-> <<>>]
    ELSE IF ~IsArray(Get(ai.value, Key1)) \/ Get(ai.value, Key2).t # "str"
         THEN [ok |-> FALSE, patterns |-> <<>>]
    ELSE [ok |-> TRUE, patterns |-> PatternNames(Get(ai.value, Key1).v)]

\* A pattern detection that reports the failure instead of applying the rules.
PatternsDetectedWithoutFallback(state, detected) ==
    IF detected.ok
    THEN StageDone(state, "detect_patterns", 25,
                   [detectedPatterns |-> List(detected.patterns),
                    fileStructureJson |-> Computed("createFileStructureJson", 0)])
    ELSE StageFailed(state, "detect_patterns", "Failed to detect patterns",
                     "detectPatternsWithAI", 0)

\* The rest of detectArchitecturePatterns once detectPatternsWithAI is over.
PatternsDetected(state, detected) ==
    IF detected.ok
    THEN StageDone(state, "detect_patterns", 25,
                   [detectedPatterns |-> List(detected.patterns),
                    fileStructureJson |-> Computed("createFileStructureJson", 0)])
    ELSE StageDone(Fallback(state, "detect_patterns", "analyzeStructuralPatterns"),
                   "detect_patterns", 25,
                   [detectedPatterns |->
                        List(AnalyzeStructuralPatterns(state.input.fileStructure)),
                    patternDetectionMethod |-> Text("fallback_rules")])

DetectArchitecturePatterns(state, ai) ==
    PatternsDetected(Called(state, "detect_patterns", "full", ai),
                     DetectPatternsWithAI(ai))

\* A tech stack stage that lets the error of inferTechStack escape.
AnalyzeTechStackThrowing(state, ok) ==
    IF ok
    THEN StageDone(state, "analyze_tech_stack", 50,
                   [techStack |-> Computed("inferTechStack", 0)])
    ELSE [state EXCEPT !.exception = "TypeError"]

\* ok says whether inferTechStack ran without throwing.
AnalyzeTechStack(state, ok) ==
    IF ok
    THEN StageDone(state, "analyze_tech_stack", 50,
                   [techStack |-> Computed("inferTechStack", 0)])
    ELSE StageFailed(state, "analyze_tech_stack", "Failed to analyze tech stack",
                     "TypeError", 25)

\* ok says whether identifyComponents and identifyEntryPoints ran without
\* throwing.
InferComponents(state, ok) ==
    IF ok
    THEN StageDone(state, "infer_components", 75,
                   [components |-> Computed("identifyComponents", 0),
                    entryPoints |-> Computed("identifyEntryPoints", 0)])
    ELSE StageFailed(state, "infer_components", "Failed to infer components",
                     "TypeError", 50)

\* architectureResponse.architectureDetails || { strengths: [], weaknesses:
\* [], riskFactors: [], ... }: architectureDetails is the key Key1 of the
\* response, weaknesses and riskFactors the keys Key1 and Key2 of the details.
DefaultDetails ==
    [t |-> "obj", v |-> [k \in {Key1, Key2} |-> EmptyArray]]

\* The analysis is assembled from the response and the metadata.
ArchitectureReceived(state, architectureResponse) ==
    [StageDone(state, "generate_analysis", 100, <<>>) EXCEPT
         !.has = @ \cup {"architectureAnalysis"},
         !.result = [architectureDetails |->
                         OrElse(Get(architectureResponse, Key1), DefaultDetails)]]

\* A stage that assembles the analysis from default details after both calls
\* have thrown.
GenerateArchitectureAnalysisWithDefaults(state, ai, simplified) ==
    IF ai.outcome = "returned"
    THEN ArchitectureReceived(Called(state, "generate_analysis", "full", ai), ai.value)
    ELSE IF simplified.outcome = "returned"
    THEN ArchitectureReceived(
             Called(Called(state, "generate_analysis", "full", ai),
                    "generate_analysis", "simplified", simplified),
             simplified.value)
    ELSE ArchitectureReceived(
             Fallback(Called(Called(state, "generate_analysis", "full", ai),
                             "generate_analysis", "simplified", simplified),
                      "generate_analysis", "defaultDetails"),
             Undefined)

\* The full prompt, then the simplified prompt; after both there is no
\* rule-based substitute.
GenerateArchitectureAnalysis(state, ai, simplified) ==
    IF ai.outcome = "returned"
    THEN ArchitectureReceived(Called(state, "generate_analysis", "full", ai), ai.value)
    ELSE IF simplified.outcome = "returned"
    THEN ArchitectureReceived(
             Called(Called(state, "generate_analysis", "full", ai),
                    "generate_analysis", "simplified", simplified),
             simplified.value)
    ELSE StageFailed(
             Called(Called(state, "generate_analysis", "full", ai),
                    "generate_analysis", "simplified", simplified),
             "generate_analysis", "Failed to generate analysis",
             simplified.error.kind, 75)

(***************************************************************************)
(* CodeFlowAgent                                                           *)
(***************************************************************************)

\* The entry points have no rule-based substitute: a failed call is an
\* error.  entryPoints, mainEntryPoint and analysisNotes are the keys Key1,
\* Key2 and Key3 of the response.
AnalyzeEntryPoints(state, ai) ==
    IF ai.outcome = "threw"
    THEN StageFailed(Called(state, "analyze_entry_points", "full", ai),
                     "analyze_execution_paths", "Entry points analysis failed",
                     ai.error.kind, 20)
    ELSE StageDone(Called(state, "analyze_entry_points", "full", ai),
                   "analyze_execution_paths", 20,
                   [entryPoints |-> Get(ai.value, Key1),
                    mainEntryPoint |-> Get(ai.value, Key2),
                    entryPointsNotes |-> Get(ai.value, Key3)])

\* The inner try of analyzeExecutionPaths: the response, or one path per
\* entry point when the call threw.
ExecutionPathsResponse(state, ai, entryPoints) ==
    IF ai.outcome = "returned"
    THEN StageDone(state, "analyze_dependencies", 40,
                   [executionPaths |-> Get(ai.value, Key1),
                    callGraphs |-> Get(ai.value, Key2),
                    moduleInteractions |-> Get(ai.value, Key3),
                    cyclomaticComplexity |-> Get(ai.value, Key4),
                    flowPatterns |-> Get(ai.value, Key5)])
    ELSE StageDone(Fallback(state, "analyze_execution_paths", "minimal execution paths"),
                   "analyze_dependencies", 40,
                   [executionPaths |->
                        List([i \in 1..Len(entryPoints.v) |-> Computed("path", i - 1)]),
                    callGraphs |-> EmptyArray,
                    moduleInteractions |-> EmptyArray,
                    cyclomaticComplexity |->
                        Number(IF Len(entryPoints.v) * 2 < 10
                               THEN Len(entryPoints.v) * 2 ELSE 10),
                    flowPatterns |-> List(<<Text("sequential")>>)])

\* analyzeExecutionPaths once entryPoints = state.metadata.entryPoints || []
\* is known: no call without entry points; the prompt needs a list (slice
\* and map), else the outer catch records the TypeError.
ExecutionPathsFor(state, ai, entryPoints) ==
    IF LengthOf(entryPoints) = 0
    THEN StageDone(state, "analyze_dependencies", 40,
                   [executionPaths |-> EmptyArray, callGraphs |-> EmptyArray,
                    moduleInteractions |-> EmptyArray,
                    cyclomaticComplexity |-> Number(0), flowPatterns |-> EmptyArray])
    ELSE IF ~IsArray(entryPoints)
    THEN StageFailed(state, "analyze_dependencies", "Execution paths analysis failed",
                     "TypeError", 40)
    ELSE ExecutionPathsResponse(Called(state, "analyze_execution_paths", "simplified", ai),
                                ai, entryPoints)

AnalyzeExecutionPaths(state, ai) ==
    ExecutionPathsFor(state, ai, OrElse(Meta(state, "entryPoints"), EmptyArray))

\* min(sourceFiles.length, 10) dependencies, each file on the next one.
MinimalDependencies(sourceFiles) ==
    List([i \in 1..(IF sourceFiles < 10 THEN sourceFiles ELSE 10) |->
             Computed("import", i - 1)])

\* A dependency analysis whose failed call is an error.
AnalyzeDependenciesUnabsorbed(state, ai) ==
    IF ai.outcome = "returned"
    THEN StageDone(Called(state, "analyze_dependencies", "simplified", ai),
                   "analyze_data_flow", 60,
                   [internalDependencies |-> Get(ai.value, Key1),
                    externalDependencies |-> Get(ai.value, Key2),
                    circularDependencies |-> Get(ai.value, Key3),
                    dependencyRiskLevel |-> Get(ai.value, Key4),
                    dependencyNotes |-> Get(ai.value, Key5)])
    ELSE StageFailed(Called(state, "analyze_dependencies", "simplified", ai),
                     "analyze_data_flow", "Dependencies analysis failed",
                     ai.error.kind, 60)

AnalyzeDependencies(state, ai) ==
    IF ai.outcome = "returned"
    THEN StageDone(Called(state, "analyze_dependencies", "simplified", ai),
                   "analyze_data_flow", 60,
                   [internalDependencies |-> Get(ai.value, Key1),
                    externalDependencies |-> Get(ai.value, Key2),
                    circularDependencies |-> Get(ai.value, Key3),
                    dependencyRiskLevel |-> Get(ai.value, Key4),
                    dependencyNotes |-> Get(ai.value, Key5)])
    ELSE StageDone(Fallback(Called(state, "analyze_dependencies", "simplified", ai),
                            "analyze_dependencies", "minimal dependencies"),
                   "analyze_data_flow", 60,
                   [internalDependencies |->
                        MinimalDependencies(state.input.fileStructure.sourceFiles),
                    externalDependencies |-> EmptyArray,
                    circularDependencies |-> EmptyArray,
                    dependencyRiskLevel |-> Text("medium"),
                    dependencyNotes |->
                        Text("Minimal dependency analysis due to LLM limitations")])

\* A data-flow analysis that repeats a failed call before it gives up.
AnalyzeDataFlowTwice(state, ai) ==
    IF ai.outcome = "returned"
    THEN StageDone(Called(state, "analyze_data_flow", "full", ai),
                   "generate_recommendations", 80,
                   [dataStreams |-> Get(ai.value, Key1),
                    dataStores |-> Get(ai.value, Key2),
                    dataTransformations |-> Get(ai.value, Key3),
                    dataFlowPatterns |-> Get(ai.value, Key4),
                    dataBottlenecks |-> Get(ai.value, Key5)])
    ELSE StageDone(Fallback(Called(Called(state, "analyze_data_flow", "full", ai),
                                   "analyze_data_flow", "simplified", ai),
                            "analyze_data_flow", "minimal data flow"),
                   "generate_recommendations", 80,
                   [dataStreams |-> List(<<Computed("stream_1", 0)>>),
                    dataStores |-> List(<<Computed("Main storage", 0)>>),
                    dataTransformations |-> List(<<Computed("transform_1", 0)>>),
                    dataFlowPatterns |->
                        List(<<Text("sequential"), Text("batch processing")>>),
                    dataBottlenecks |-> EmptyArray])

AnalyzeDataFlow(state, ai) ==
    IF ai.outcome = "returned"
    THEN StageDone(Called(state, "analyze_data_flow", "simplified", ai),
                   "generate_recommendations", 80,
                   [dataStreams |-> Get(ai.value, Key1),
                    dataStores |-> Get(ai.value, Key2),
                    dataTransformations |-> Get(ai.value, Key3),
                    dataFlowPatterns |-> Get(ai.value, Key4),
                    dataBottlenecks |-> Get(ai.value, Key5)])
    ELSE StageDone(Fallback(Called(state, "analyze_data_flow", "simplified", ai),
                            "analyze_data_flow", "minimal data flow"),
                   "generate_recommendations", 80,
                   [dataStreams |-> List(<<Computed("stream_1", 0)>>),
                    dataStores |-> List(<<Computed("Main storage", 0)>>),
                    dataTransformations |-> List(<<Computed("transform_1", 0)>>),
                    dataFlowPatterns |->
                        List(<<Text("sequential"), Text("batch processing")>>),
                    dataBottlenecks |-> EmptyArray])

\* The complexity of the minimal recommendations.
MinimalComplexity(circularDeps, entryPoints) ==
    IF LengthOf(circularDeps) > 0 THEN Text("high")
    ELSE IF LengthOf(entryPoints) > 5 THEN Text("medium")
    ELSE Text("low")

GenerateRecommendations(state, ai) ==
    IF ai.outcome = "returned"
    THEN StageDone(Called(state, "generate_recommendations", "simplified", ai),
                   "finalize_analysis", 90,
                   [codeFlowRecommendations |-> Get(ai.value, Key1),
                    codeFlowComplexity |-> Get(ai.value, Key2),
                    priorityActions |-> Get(ai.value, Key3),
                    riskFactors |-> Get(ai.value, Key4)])
    ELSE StageDone(Fallback(Called(state, "generate_recommendations", "simplified", ai),
                            "generate_recommendations", "minimal recommendations"),
                   "finalize_analysis", 90,
                   [codeFlowRecommendations |-> Computed("recommendations", 4),
                    codeFlowComplexity |->
                        MinimalComplexity(
                            OrElse(Meta(state, "circularDependencies"), EmptyArray),
                            OrElse(Meta(state, "entryPoints"), EmptyArray)),
                    priorityActions |-> Computed("priorityActions", 3),
                    riskFactors |-> Computed("riskFactors", 3)])

\* nodeMap after the first loop of buildDependencyTree: one node for every
\* file named as a source or a target, in the order of first mention, flagged
\* as the dependency that first mentions it.
NewNode(name, isCircular) ==
    [name |-> name, type |-> "file", children |-> <<>>, depth |-> 0,
     isCircular |-> isCircular]

SetNode(nodeMap, name, isCircular) ==
    IF \E n \in DOMAIN nodeMap : nodeMap[n].name = name
    THEN nodeMap
    ELSE Append(nodeMap, NewNode(name, isCircular))

RECURSIVE CreateNodes(_, _, _)
CreateNodes(dependencies, i, nodeMap) ==
    IF i > Len(dependencies) THEN nodeMap
    ELSE CreateNodes(dependencies, i + 1,
                     SetNode(SetNode(nodeMap, dependencies[i].source,
                                     dependencies[i].isCircular),
                             dependencies[i].target, dependencies[i].isCircular))

\* `${from}->${to}`
EdgeKey(from, to) == from \o <<"-", ">">> \o to

\* An edge that is dropped only for the flag of its dependency.
SkippedIfFlagged(dep, processedEdges) == dep.isCircular

\* processedEdges.has(reverseEdgeKey) || dep.isCircular
Skipped(dep, processedEdges) ==
    EdgeKey(dep.target, dep.source) \in processedEdges \/ dep.isCircular

\* sourceNode.children.push({ name, type, isCircular }) of the target node.
PushChild(nodeMap, dep) ==
    [n \in DOMAIN nodeMap |->
        IF nodeMap[n].name = dep.source
        THEN [nodeMap[n] EXCEPT !.children =
                 Append(@, LET targetNode ==
                                   nodeMap[CHOOSE k \in DOMAIN nodeMap :
                                               nodeMap[k].name = dep.target]
                           IN [name |-> targetNode.name, type |-> targetNode.type,
                               isCircular |-> targetNode.isCircular])]
        ELSE nodeMap[n]]

\* The second loop: the relationships.
RECURSIVE BuildRelationships(_, _, _, _)
BuildRelationships(dependencies, i, nodeMap, processedEdges) ==
    IF i > Len(dependencies) THEN nodeMap
    ELSE IF Skipped(dependencies[i], processedEdges)
         THEN BuildRelationships(dependencies, i + 1, nodeMap, processedEdges)
         ELSE BuildRelationships(
                  dependencies, i + 1, PushChild(nodeMap, dependencies[i]),
                  processedEdges
                      \cup {EdgeKey(dependencies[i].source, dependencies[i].target)})

\* buildDependencyTree(dependencies): Array.from(nodeMap.values())
BuildDependencyTree(dependencies) ==
    BuildRelationships(dependencies, 1, CreateNodes(dependencies, 1, <<>>), {})

\* buildDependencyTree needs a list (forEach), else the catch records the
\* TypeError.
FinalizeAnalysis(state) ==
    IF ~IsArray(OrElse(Meta(state, "internalDependencies"), EmptyArray))
    THEN StageFailed(state, "completed", "Code flow analysis finalization failed",
                     "TypeError", 100)
    ELSE [StageDone(state, "completed", 100, <<>>) EXCEPT
              !.has = @ \cup {"codeFlowAnalysis"},
              !.result = [complexity |->
                              OrElse(Meta(state, "codeFlowComplexity"), Text("medium"))]]

(***************************************************************************)
(* RiskAssessmentAgent                                                     *)
(***************************************************************************)

\* An error that escapes analyze()'s try block.
Thrown(state, exception) == [state EXCEPT !.exception = exception]

\* \w of a regular expression
IsWordChar(c) ==
    \/ \E k \in 1..Len(UpperCaseLetters) : c \in {UpperCaseLetters[k], LowerCaseLetters[k]}
    \/ c \in {"0", "1", "2", "3", "4", "5", "6", "7", "8", "9", "_"}

\* \b of a regular expression, at the gap before index i of s
WordBoundary(s, i) ==
    (i - 1 >= 1 /\ IsWordChar(s[i - 1])) # (i <= Len(s) /\ IsWordChar(s[i]))

\* (content.match(/\b(word|word|...)\b/g) || []).length: the matches of
\* these words cannot overlap, so that they are counted by where they start.
MatchCount(content, words) ==
    Cardinality({i \in 1..Len(content) :
                    \E word \in words :
                        /\ OccursAt(content, word, i)
                        /\ WordBoundary(content, i)
                        /\ WordBoundary(content, i + Len(word))})

Conditionals ==
    {<<"i", "f">>,
     <<"e", "l", "s", "e">>,
     <<"w", "h", "i", "l", "e">>,
     <<"f", "o", "r">>,
     <<"s", "w", "i", "t", "c", "h">>,
     <<"c", "a", "s", "e">>,
     <<"c", "a", "t", "c", "h">>,
     <<"&", "&">>,
     <<"|", "|">>}

Functions ==
    {<<"f", "u", "n", "c", "t", "i", "o", "n">>,
     <<"d", "e", "f">>,
     <<"c", "l", "a", "s", "s">>,
     <<"m", "e", "t", "h", "o", "d">>,
     <<"p", "u", "b", "l", "i", "c">>,
     <<"p", "r", "i", "v", "a", "t", "e">>}

\* A complexity that is returned without its cap.
CalculateSimpleComplexityUncapped(content) ==
    MatchCount(content, Conditionals) + MatchCount(content, Functions) + 1

CalculateSimpleComplexity(content) ==
    IF MatchCount(content, Conditionals) + MatchCount(content, Functions) + 1 <= 100
    THEN MatchCount(content, Conditionals) + MatchCount(content, Functions) + 1
    ELSE 100

DetermineFileRiskLevel(loc, complexity) ==
    IF loc > 1000 \/ complexity > 20 THEN "high"
    ELSE IF loc > 500 \/ complexity > 10 THEN "medium"
    ELSE "low"

\* The metric calculateFileComplexity computes for one file that has a
\* content (without its maintainability index and its issues).
FileComplexityMetric(content) ==
    [linesOfCode |-> SplitLength(content, "\n"),
     complexity |-> CalculateSimpleComplexity(content),
     riskLevel |-> DetermineFileRiskLevel(SplitLength(content, "\n"),
                                          CalculateSimpleComplexity(content))]

\* A number that need not be whole: num / den, den > 0.
Ratio(num, den) == [num |-> num, den |-> den]

\* Math.min(x, n) for a whole n
MinWith(x, n) == IF x.num <= n * x.den THEN x ELSE Ratio(n, 1)

\* x + n for a whole n
Plus(x, n) == Ratio(x.num + n * x.den, x.den)

\* list.filter(e => e[field] === value).length
CountWhere(list, field, value) ==
    Cardinality({i \in 1..Len(list) : list[i][field] = value})

\* A score that is returned without its cap.
CalculateOverallRiskScoreUncapped(complexityMetrics, dependencyRisks, migrationBlockers) ==
    Plus(Plus(MinWith(complexityMetrics.overallComplexity.cyclomaticComplexity, 40),
              CountWhere(dependencyRisks, "riskLevel", "critical") * 10
                  + CountWhere(dependencyRisks, "riskLevel", "high") * 5),
         CountWhere(migrationBlockers, "severity", "blocker") * 15
             + CountWhere(migrationBlockers, "severity", "critical") * 10)

CalculateOverallRiskScore(complexityMetrics, dependencyRisks, migrationBlockers) ==
    MinWith(
        Plus(Plus(MinWith(complexityMetrics.overallComplexity.cyclomaticComplexity, 40),
                  CountWhere(dependencyRisks, "riskLevel", "critical") * 10
                      + CountWhere(dependencyRisks, "riskLevel", "high") * 5),
             CountWhere(migrationBlockers, "severity", "blocker") * 15
                 + CountWhere(migrationBlockers, "severity", "critical") * 10),
        100)

\* Steps 1 to 3: file complexity, dependency risks and migration blockers.
\* identifyMigrationBlockers takes riskFactors.slice(0, 3), which a list and
\* a string have, and calls replace on each element, which a string has.
IdentifyMigrationBlockers(state, riskFactors) ==
    IF riskFactors.t \notin {"arr", "str"}
    THEN Thrown([state EXCEPT !.progress = 50], "TypeError")
    ELSE IF riskFactors.t = "arr"
            /\ \E i \in 1..Len(riskFactors.v) : i <= 3 /\ riskFactors.v[i].t # "str"
    THEN Thrown([state EXCEPT !.progress = 50], "TypeError")
    ELSE [state EXCEPT !.progress = 75]

\* Step 5 maps over additionalRisks (Key1), calling replace on each title
\* (Key3), and over securityConcerns (Key2).
RiskResponseUsable(aiRiskAnalysis) ==
    /\ IsArray(Get(aiRiskAnalysis, Key1))
    /\ \A i \in 1..Len(Get(aiRiskAnalysis, Key1).v) :
           Get(Get(aiRiskAnalysis, Key1).v[i], Key3).t = "str"
    /\ IsArray(Get(aiRiskAnalysis, Key2))

\* Steps 4 and 5 once the prompt is built: the call has no rule-based
\* substitute and its error escapes.
RiskAnalysisReceived(state, ai) ==
    IF ai.outcome = "threw" THEN Thrown(state, ai.error.kind)
    ELSE IF ~RiskResponseUsable(ai.value) THEN Thrown(state, "TypeError")
    ELSE [state EXCEPT !.has = @ \cup {"riskAssessment"},
                       !.result = [overallRiskScore |-> Computed("calculateOverallRiskScore", 0)]]

\* createRiskAnalysisPrompt maps over weaknesses (Key1) and riskFactors
\* (Key2) of the architecture details.
AiRiskAnalysis(state, ai) ==
    IF ~IsArray(Get(state.input.architectureDetails, Key1))
       \/ ~IsArray(Get(state.input.architectureDetails, Key2))
    THEN Thrown(state, "TypeError")
    ELSE RiskAnalysisReceived(Called(state, "ai_risk_analysis", "full", ai), ai)

(***************************************************************************)
(* analyze(): the orchestrators                                            *)
(***************************************************************************)

Agents == {"github", "architecture", "codeflow", "risk"}

\* The stages of each analyze(), in the order of its text.
Stages ==
    [agent \in Agents |->
        CASE agent = "github" ->
                 <<"fetch_repository", "analyze_files", "categorize_structure",
                   "generate_summary">>
          [] agent = "architecture" ->
                 <<"detect_patterns", "analyze_tech_stack", "infer_components",
                   "generate_analysis">>
          [] agent = "codeflow" ->
                 <<"analyze_entry_points", "analyze_execution_paths",
                   "analyze_dependencies", "analyze_data_flow",
                   "generate_recommendations", "finalize_analysis">>
          [] agent = "risk" -> <<"identify_blockers", "ai_risk_analysis">>]

NoFailure == [message |-> "none", errors |-> <<>>]

\* analyze() of an agent is entered.
NewPipe(agent, cfg, input) ==
    [kind |-> "pipe", agent |-> agent, cfg |-> cfg, next |-> Stages[agent][1],
     state |-> InitialState(IF agent = "codeflow" THEN "analyze_entry_points" ELSE "init",
                            input),
     status |-> "running", error |-> NoFailure, ran |-> <<>>]

\* The stage p.next has been run: it is logged with the number of errors it
\* started from.
Ran(p, state) ==
    [p EXCEPT !.state = state,
              !.ran = Append(@, [stage |-> p.next, errorsBefore |-> Len(p.state.errors)])]

\* throw new Error(...)
Throw(p, message, errors) ==
    [p EXCEPT !.status = "threw", !.error = [message |-> message, errors |-> errors]]

\* A check that lets the next stage run whatever the errors list holds.
AfterStageUnchecked(p, state, failure, next) ==
    IF state.exception # "none" THEN Throw(Ran(p, state), state.exception, <<>>)
    ELSE [Ran(p, state) EXCEPT !.next = next]

\* state = await this.stage(state); if (state.errors.length > 0) throw ...
AfterStage(p, state, failure, next) ==
    IF state.exception # "none" THEN Throw(Ran(p, state), state.exception, <<>>)
    ELSE IF Len(state.errors) > 0 THEN Throw(Ran(p, state), failure, state.errors)
    ELSE [Ran(p, state) EXCEPT !.next = next]

\* The last stage, the check of its errors and of the result, and the
\* return.
AfterLastStage(p, state, failure, product, notCompleted) ==
    IF state.exception # "none" THEN Throw(Ran(p, state), state.exception, <<>>)
    ELSE IF Len(state.errors) > 0 THEN Throw(Ran(p, state), failure, state.errors)
    ELSE IF product \notin state.has THEN Throw(Ran(p, state), notCompleted, <<>>)
    ELSE [Ran(p, state) EXCEPT !.status = "returned", !.next = "none"]

\* An analyze() that goes on to the file analysis whatever the fetch of the
\* repository returned.
GitHubAnalyzeUnchecked(p, ok, ai) ==
    CASE p.next = "fetch_repository" ->
             AfterStageUnchecked(p, FetchRepository(p.state, ok),
                                 "Fetch repository failed", "analyze_files")
      [] p.next = "analyze_files" ->
             AfterStage(p, AnalyzeFiles(p.state, ok),
                        "Analyze files failed", "categorize_structure")
      [] p.next = "categorize_structure" ->
             AfterStage(p, CategorizeStructure(p.state),
                        "Categorize structure failed", "generate_summary")
      [] p.next = "generate_summary" ->
             AfterLastStage(p, GenerateSummary(p.state, ai), "Generate summary failed",
                            "repositoryAnalysis", "Repository analysis not completed")

\* GitHubRepoAnalyzerAgent.analyze from one await to the next; ok says
\* whether the GitHub requests of the stage succeed.
GitHubAnalyze(p, ok, ai) ==
    CASE p.next = "fetch_repository" ->
             AfterStage(p, FetchRepository(p.state, ok),
                        "Fetch repository failed", "analyze_files")
      [] p.next = "analyze_files" ->
             AfterStage(p, AnalyzeFiles(p.state, ok),
                        "Analyze files failed", "categorize_structure")
      [] p.next = "categorize_structure" ->
             AfterStage(p, CategorizeStructure(p.state),
                        "Categorize structure failed", "generate_summary")
      [] p.next = "generate_summary" ->
             AfterLastStage(p, GenerateSummary(p.state, ai), "Generate summary failed",
                            "repositoryAnalysis", "Repository analysis not completed")

\* ArchitectureInferenceAgent.analyze from one await to the next; ok says
\* whether the rule-based body of the stage runs without throwing.
ArchitectureAnalyze(p, ok, ai, simplified) ==
    CASE p.next = "detect_patterns" ->
             AfterStage(p, DetectArchitecturePatterns(p.state, ai),
                        "Pattern detection failed", "analyze_tech_stack")
      [] p.next = "analyze_tech_stack" ->
             AfterStage(p, AnalyzeTechStack(p.state, ok),
                        "Tech stack analysis failed", "infer_components")
      [] p.next = "infer_components" ->
             AfterStage(p, InferComponents(p.state, ok),
                        "Component inference failed", "generate_analysis")
      [] p.next = "generate_analysis" ->
             AfterLastStage(p, GenerateArchitectureAnalysis(p.state, ai, simplified),
                            "Architecture analysis failed", "architectureAnalysis",
                            "Architecture analysis not completed")

\* CodeFlowAgent.analyze from one await to the next.
CodeFlowAnalyze(p, ai) ==
    CASE p.next = "analyze_entry_points" ->
             AfterStage(p, AnalyzeEntryPoints(p.state, ai),
                        "Entry points analysis failed", "analyze_execution_paths")
      [] p.next = "analyze_execution_paths" ->
             AfterStage(p, AnalyzeExecutionPaths(p.state, ai),
                        "Execution paths analysis failed", "analyze_dependencies")
      [] p.next = "analyze_dependencies" ->
             AfterStage(p, AnalyzeDependencies(p.state, ai),
                        "Dependencies analysis failed", "analyze_data_flow")
      [] p.next = "analyze_data_flow" ->
             AfterStage(p, AnalyzeDataFlow(p.state, ai),
                        "Data flow analysis failed", "generate_recommendations")
      [] p.next = "generate_recommendations" ->
             AfterStage(p, GenerateRecommendations(p.state, ai),
                        "Recommendations generation failed", "finalize_analysis")
      [] p.next = "finalize_analysis" ->
             AfterLastStage(p, FinalizeAnalysis(p.state), "Analysis finalization failed",
                            "codeFlowAnalysis",
                            "Code flow analysis failed to produce results")

\* A step of RiskAssessmentAgent.analyze is over: its error escapes, or the
\* next step follows, or the assessment is returned.
AfterRiskStep(p, state, next) ==
    IF state.exception # "none" THEN Throw(Ran(p, state), state.exception, <<>>)
    ELSE IF next = "none" THEN [Ran(p, state) EXCEPT !.status = "returned", !.next = next]
    ELSE [Ran(p, state) EXCEPT !.next = next]

\* RiskAssessmentAgent.analyze: the synchronous steps, then the call and the
\* compilation of the assessment.
RiskAnalyze(p, ai) ==
    CASE p.next = "identify_blockers" ->
             AfterRiskStep(p, IdentifyMigrationBlockers(
                                  p.state, Get(p.state.input.architectureDetails, Key2)),
                           "ai_risk_analysis")
      [] p.next = "ai_risk_analysis" ->
             AfterRiskStep(p, AiRiskAnalysis(p.state, ai), "none")

(***************************************************************************)
(* PipeSpec: one analyze() of one agent, the provider behaving in any of   *)
(* the ways of Behaviours at each call                                     *)
(***************************************************************************)

\* Files of a repository, by path and name.
ControllerFile ==
    [path |-> <<"s", "r", "c", "/", "c", "o", "n", "t", "r", "o", "l", "l",
                "e", "r", "s", "/", "U", "s", "e", "r", "C", "o", "n", "t",
                "r", "o", "l", "l", "e", "r", ".", "j", "s">>,
     name |-> <<"U", "s", "e", "r", "C", "o", "n", "t", "r", "o", "l", "l",
                "e", "r", ".", "j", "s">>]

ModelFile ==
    [path |-> <<"s", "r", "c", "/", "m", "o", "d", "e", "l", "s", "/", "U",
                "s", "e", "r", ".", "j", "s">>,
     name |-> <<"U", "s", "e", "r", ".", "j", "s">>]

ViewFile ==
    [path |-> <<"s", "r", "c", "/", "v", "i", "e", "w", "s", "/", "u", "s",
                "e", "r", "/", "i", "n", "d", "e", "x", ".", "e", "j", "s">>,
     name |-> <<"i", "n", "d", "e", "x", ".", "e", "j", "s">>]

ServiceFile ==
    [path |-> <<"s", "r", "c", "/", "s", "e", "r", "v", "i", "c", "e", "s",
                "/", "U", "s", "e", "r", "S", "e", "r", "v", "i", "c", "e",
                ".", "j", "s">>,
     name |-> <<"U", "s", "e", "r", "S", "e", "r", "v", "i", "c", "e", ".",
                "j", "s">>]

ReadmeFile ==
    [path |-> <<"R", "E", "A", "D", "M", "E", ".", "m", "d">>,
     name |-> <<"R", "E", "A", "D", "M", "E", ".", "m", "d">>]

FileStructures ==
    {{ControllerFile, ModelFile, ViewFile}, {ControllerFile, ServiceFile}, {ReadmeFile}}

\* The architecture details an architecture analysis can carry.
ArchitectureDetails ==
    {OrElse(Get(JsonParse(r).val, Key1), DefaultDetails) :
        r \in {RespFull, RespPlain, RespEmptyObject, RespNested}}

\* What analyze() is given: huge says that the repository has so many files
\* that a prompt listing them exceeds the size limit.
NoInput ==
    [huge |-> FALSE, fileStructure |-> [files |-> {}, sourceFiles |-> 0],
     architectureDetails |-> Undefined]

InputsOf(agent) ==
    CASE agent = "github" -> {[NoInput EXCEPT !.huge = h] : h \in BOOLEAN}
      [] agent = "architecture" ->
             {[NoInput EXCEPT !.huge = h, !.fileStructure.files = files] :
                 h \in BOOLEAN, files \in FileStructures}
      [] agent = "codeflow" ->
             {[NoInput EXCEPT !.fileStructure.sourceFiles = n] : n \in {2, 12}}
      [] agent = "risk" ->
             {[NoInput EXCEPT !.architectureDetails = d] : d \in ArchitectureDetails}

\* The length of the prompt of the stage p.next: the summary prompt and the
\* pattern detection prompt list files without a bound.
PromptLength(p) ==
    IF p.state.input.huge /\ p.next \in {"generate_summary", "detect_patterns"}
    THEN MaxPromptLength + 1
    ELSE 1

PipeInit ==
    /\ call = NoCall
    /\ pipe \in UNION {{NewPipe(agent, cfg, input) :
                            cfg \in AgentConfigs, input \in InputsOf(agent)} :
                        agent \in Agents}
    /\ analysisResults = NoRecords
    /\ tasks = NoTasks
    /\ nextId = 1

GitHubStep ==
    /\ pipe.agent = "github"
    /\ pipe.status = "running"
    /\ \E ok \in BOOLEAN, ai \in CallOutcomes[pipe.cfg, PromptLength(pipe)] :
           pipe' = GitHubAnalyze(pipe, ok, ai)
    /\ UNCHANGED <<call, analysisResults, tasks, nextId>>

ArchitectureStep ==
    /\ pipe.agent = "architecture"
    /\ pipe.status = "running"
    /\ \E ok \in BOOLEAN, ai \in CallOutcomes[pipe.cfg, PromptLength(pipe)],
          simplified \in CallOutcomes[pipe.cfg, 1] :
           pipe' = ArchitectureAnalyze(pipe, ok, ai, simplified)
    /\ UNCHANGED <<call, analysisResults, tasks, nextId>>

CodeFlowStep ==
    /\ pipe.agent = "codeflow"
    /\ pipe.status = "running"
    /\ \E ai \in CallOutcomes[pipe.cfg, PromptLength(pipe)] :
           pipe' = CodeFlowAnalyze(pipe, ai)
    /\ UNCHANGED <<call, analysisResults, tasks, nextId>>

RiskStep ==
    /\ pipe.agent = "risk"
    /\ pipe.status = "running"
    /\ \E ai \in CallOutcomes[pipe.cfg, PromptLength(pipe)] :
           pipe' = RiskAnalyze(pipe, ai)
    /\ UNCHANGED <<call, analysisResults, tasks, nextId>>

PipeNext == GitHubStep \/ ArchitectureStep \/ CodeFlowStep \/ RiskStep

PipeSpec == PipeInit /\ [][PipeNext]_vars

(***************************************************************************)
(* Properties of one call                                                  *)
(***************************************************************************)

\* C4: a call makes at most three attempts (retries = 2); attempt k + 1
\* starts only after attempts 0..k have failed, one after the other; a
\* response ends the call in the attempt that received it; and after the
\* third failed attempt the call throws that attempt's error.
C4_AtMostThreeAttempts ==
    /\ call.attempt \in 0..DefaultRetries
    /\ Len(call.invoked) <= DefaultRetries + 1
    /\ \A i \in 1..Len(call.failures) : call.failures[i].attempt = i - 1
    /\ \A i \in 1..Len(call.invoked) : call.invoked[i].attempt <= Len(call.failures)
    /\ call.pc = "invoking" => Len(call.failures) = call.attempt
    /\ call.pc = "waiting" =>
           Len(call.failures) = call.attempt + 1 /\ call.attempt < DefaultRetries
    /\ call.received => call.pc = "done" /\ Len(call.failures) = call.attempt
    /\ Len(call.failures) = DefaultRetries + 1 =>
           /\ call.pc = "done"
           /\ call.outcome = "threw"
           /\ call.error = [kind |-> "LLMGenerationFailed",
                            cause |-> call.failures[DefaultRetries + 1].message]

\* Three provider requests were made and failed with different messages,
\* and the call threw.
C4_Witness ==
    /\ Len(call.invoked) = DefaultRetries + 1
    /\ Len(call.failures) = DefaultRetries + 1
    /\ call.failures[1].message # call.failures[DefaultRetries + 1].message
    /\ call.outcome = "threw"

\* C9: a prompt longer than 100000 characters makes the call throw the
\* prompt-too-large error before any attempt, provider request or back-off;
\* a prompt of exactly 100000 characters is not rejected by the size check.
C9_PromptSizeLimit ==
    call.pc # "idle" =>
        /\ call.promptLength > MaxPromptLength =>
               /\ call.pc = "done"
               /\ call.outcome = "threw"
               /\ call.error.kind = "PromptTooLarge"
               /\ call.invoked = <<>>
               /\ call.failures = <<>>
               /\ call.waits = <<>>
        /\ call.promptLength <= MaxPromptLength => call.error.kind # "PromptTooLarge"

\* A call with a prompt of 100001 characters has ended.
C9_Witness ==
    /\ call.promptLength = MaxPromptLength + 1
    /\ call.pc = "done"
    /\ call.outcome = "threw"

\* The texts that can be derived from a response by cutting out a
\* contiguous part and appending closing brackets and braces.
DerivedTexts(response) ==
    {SubSeq(response, i, j) \o Repeat("]", n) \o Repeat("}", m) :
        i \in 1..Len(response), j \in 1..Len(response),
        n \in 0..CountChar(response, "["), m \in 0..CountChar(response, "{")}

\* C10: a value the call returns is the JSON parse of a text derived from
\* the provider's response, and a call that ends in any other way throws
\* and yields no value.
C10_ReturnsOnlyParsedJson ==
    /\ call.outcome = "returned" =>
           /\ call.pc = "done"
           /\ call.received
           /\ call.error = NoError
           /\ \E text \in DerivedTexts(call.response) :
                  JsonParse(text) = [ok |-> TRUE, val |-> call.value]
    /\ call.pc = "done" /\ call.outcome # "returned" =>
           /\ call.outcome = "threw"
           /\ call.value = NoVal
           /\ call.error.kind \in {"PromptTooLarge", "LLMGenerationFailed",
                                   "EmptyResponse", "ParseFailed"}

\* A truncated response was repaired and its parse returned.
C10_Witness ==
    /\ call.outcome = "returned"
    /\ call.via = "repair"
    /\ call.response = RespTruncList

\* The four extraction strategies in the order of the text, each with the
\* candidate its pattern cuts out of the response (the fourth always has
\* one: the whole trimmed response).
Strategies(response) ==
    <<[via |-> "json_fence", m |-> FencedCandidate(response, JsonFence)],
      [via |-> "code_fence", m |-> FencedCandidate(response, Fence)],
      [via |-> "braces", m |-> BraceCandidate(response)],
      [via |-> "whole", m |-> [found |-> TRUE, text |-> Trim(response)]]>>

\* The strategies of S whose pattern matches.
Matching(S) == {k \in 1..4 : S[k].m.found}

\* The strategies of S whose candidate is present and parses as JSON.
Parsing(S) == {k \in Matching(S) : JsonParse(S[k].m.text).ok}

\* The call returned the parse of the k-th strategy's candidate.
ReturnedParseOf(S, k) ==
    /\ call.outcome = "returned"
    /\ call.value = JsonParse(S[k].m.text).val

\* The call ended as the repair of the whole response decides.
EndedAsRepaired(repairedJson) ==
    IF repairedJson.ok
    THEN call.outcome = "returned" /\ call.value = repairedJson.val
             /\ call.via = "repair"
    ELSE call.outcome = "threw" /\ call.error.kind = "ParseFailed"

\* C11 as stated: for a non-empty response the call returns the parse of the
\* first strategy, in order, whose candidate parses as JSON; a candidate
\* that is present but does not parse is skipped.
C11_FirstParsingStrategy ==
    call.received /\ Trim(call.response) # <<>> =>
        \/ Parsing(Strategies(call.response)) = {}
        \/ ReturnedParseOf(Strategies(call.response),
                           MinOf(Parsing(Strategies(call.response))))

\* C11, amended: for a non-empty response the first strategy, in order,
\* whose pattern matches is the only one tried: the parse of its candidate
\* is returned if the candidate parses, and otherwise no later strategy is
\* tried and the repair of the whole response decides the outcome.
FirstMatchDecides(S, k) ==
    IF k \in Parsing(S)
    THEN ReturnedParseOf(S, k) /\ call.via = S[k].via
    ELSE EndedAsRepaired(RepairTruncatedJson(call.response))

C11_FirstMatchingStrategy ==
    call.received /\ Trim(call.response) # <<>> =>
        FirstMatchDecides(Strategies(call.response),
                          MinOf(Matching(Strategies(call.response))))

\* The json fence held prose and the call threw, although the brace pattern
\* cuts out an object that parses.
C11_Witness ==
    /\ call.received
    /\ call.response = RespBadFenceBrace
    /\ call.outcome = "threw"
    /\ 3 \in Parsing(Strategies(call.response))

\* The first and the last index of the json-tagged fenced block that starts
\* at p, the first occurrence of the tag.
JsonFenceSpan(response, p) ==
    [from |-> p, to |-> IndexOf(response, Fence, p + Len(JsonFence)) + Len(Fence) - 1]

\* The objects written in the response outside the span.
ObjectsOutside(response, span) ==
    {JsonParse(SubSeq(response, i, j)).val :
        <<i, j>> \in {<<i, j>> \in (1..Len(response)) \X (1..Len(response)) :
                        /\ i < j
                        /\ j < span.from \/ i > span.to
                        /\ response[i] = "{" /\ response[j] = "}"
                        /\ JsonParse(SubSeq(response, i, j)).ok}}

\* The bare objects of a response that has a json-tagged fenced block.
BareObjects(response) ==
    IF FencedCandidate(response, JsonFence).found
    THEN ObjectsOutside(response,
                        JsonFenceSpan(response, IndexOf(response, JsonFence, 1)))
    ELSE {}

\* The call received a response with a json-tagged fenced block and a bare
\* object.
FenceAndBareObject ==
    /\ call.received
    /\ FencedCandidate(call.response, JsonFence).found
    /\ BareObjects(call.response) # {}

\* The value the call returned is the parse of the fenced block's content.
ReturnedFenced(p) == p.ok /\ call.value = p.val

\* C12 as stated: when the response has both a json-tagged fenced block and
\* a bare object, the value the call returns is the parse of the fenced
\* block's content.
C12_FencedBlockWins ==
    FenceAndBareObject /\ call.outcome = "returned" =>
        ReturnedFenced(JsonParse(FencedCandidate(call.response, JsonFence).text))

\* C12, amended: when the response has both a json-tagged fenced block whose
\* content parses as JSON and a bare object, the call returns the parse of
\* the fenced block's content.
C12_ParsingFencedBlockWins ==
    FenceAndBareObject
        /\ JsonParse(FencedCandidate(call.response, JsonFence).text).ok =>
            /\ call.outcome = "returned"
            /\ call.via = "json_fence"
            /\ ReturnedFenced(JsonParse(FencedCandidate(call.response, JsonFence).text))

\* The bare object came first in the text and the fenced one was returned.
C12_Witness ==
    /\ FenceAndBareObject
    /\ call.response = RespTwoObjects
    /\ call.outcome = "returned"
    /\ call.value \notin BareObjects(call.response)

\* What the extraction and the repair write to the log when they run.
ExtractionMessages ==
    {FoundMessage(via) : via \in {"json_fence", "code_fence", "braces", "whole"}}

RepairMessages ==
    {"JSON parsing failed, attempting repair", "Successfully repaired truncated JSON"}

\* The messages of the entries the call logged for the response.
LoggedMessages == {call.log[i].message : i \in DOMAIN call.log}

\* C13: a call whose provider returned an empty or blank text throws the
\* error of the empty response, not the one of a parse failure, and neither
\* the extraction nor the repair has run on the response.
C13_EmptyResponseError ==
    call.received /\ Trim(call.response) = <<>> =>
        /\ call.outcome = "threw"
        /\ call.error = [kind |-> "EmptyResponse", cause |-> "LLM returned empty response"]
        /\ call.value = NoVal
        /\ call.via = "none"
        /\ LoggedMessages \cap (ExtractionMessages \cup RepairMessages) = {}

\* The provider returned a blank text and the call has ended.
C13_Witness ==
    /\ call.received
    /\ call.response = RespBlank
    /\ call.pc = "done"
    /\ "Empty response from LLM" \in LoggedMessages

\* The call threw because neither a candidate nor a repair parsed.
ThrewParseFailure ==
    /\ call.received
    /\ call.outcome = "threw"
    /\ call.error.kind = "ParseFailed"

\* Whether text is a non-empty leading part of the response.
IsPreviewOf(text, response) ==
    /\ text # <<>>
    /\ Len(text) <= Len(response)
    /\ text = SubSeq(response, 1, Len(text))

\* C14 as stated: the message of the error thrown after extraction and
\* repair failed carries a truncated preview of the raw response, that is,
\* the text the message is written from is a leading part of the response.
C14_MessageCarriesPreview ==
    ThrewParseFailure => IsPreviewOf(call.error.source, call.response)

\* C14, amended: the message of the error thrown after extraction and repair
\* failed is that of the SyntaxError of the first matching candidate, and
\* the preview of the raw response, its first 1000 characters, is in the
\* error entry the call logged before it attempted the repair.
C14_FailureLoggedWithPreview ==
    ThrewParseFailure =>
        /\ call.error = ParseFailed(Candidate(call.response).text)
        /\ \E i \in DOMAIN call.log :
               call.log[i] = LogEntry("error", "JSON parsing failed, attempting repair",
                                      Substring(call.response, LogPreviewLength))

\* A response of 1001 characters failed to parse: the log entry holds its
\* first 1000 characters, and the error is written from the whole candidate.
C14_Witness ==
    /\ ThrewParseFailure
    /\ call.response = RespLong
    /\ Len(call.response) > LogPreviewLength
    /\ \E i \in DOMAIN call.log : Len(call.log[i].preview) = LogPreviewLength

\* One step of a call: the step in which the provider's text arrives ends
\* the call without another invocation, and no step after it invokes.
NoInvocationAfterText ==
    /\ call.received => call'.invoked = call.invoked
    /\ call'.received =>
           /\ call'.pc = "done"
           /\ call'.invoked = call.invoked
           /\ call'.waits = call.waits

\* C15: once the provider has returned text, the call makes no further
\* provider invocation, whatever extraction and repair make of the text: a
\* parse failure or an empty response is not retried.
C15_NoInvocationAfterText == [][NoInvocationAfterText]_vars

\* A call whose second request brought a text that could not be parsed has
\* ended with its two invocations.
C15_Witness ==
    /\ ThrewParseFailure
    /\ call.pc = "done"
    /\ Len(call.failures) = 1
    /\ Len(call.invoked) = 2

\* Whether the client of the configured provider was initialised.
PrimaryInitialised(cfg) == cfg[cfg.provider]

\* C16: every attempt invokes at most one client; all invocations go to the
\* configured provider's client if it was initialised, and the other client
\* is invoked only when it was not.
C16_OneClientPerAttempt ==
    /\ \A i, j \in DOMAIN call.invoked :
           call.invoked[i].attempt = call.invoked[j].attempt => i = j
    /\ PrimaryInitialised(call.cfg) =>
           \A i \in DOMAIN call.invoked : call.invoked[i].client = call.cfg.provider
    /\ \A i \in DOMAIN call.invoked :
           call.invoked[i].client # call.cfg.provider => ~PrimaryInitialised(call.cfg)

\* Both clients exist, Anthropic is configured, and three attempts failed.
C16_Witness ==
    /\ call.cfg = [provider |-> "anthropic", gemini |-> TRUE, anthropic |-> TRUE]
    /\ Len(call.invoked) = DefaultRetries + 1
    /\ Len(call.failures) = DefaultRetries + 1
    /\ call.outcome = "threw"

(***************************************************************************)
(* Properties of repairTruncatedJson                                       *)
(***************************************************************************)

\* C17: the texts are serialised objects (JSON.parse gives the object back),
\* and for each of them cut off at or beyond half its length
\* repairTruncatedJson does not throw: it returns null or an object whose
\* top-level keys are keys of the original object.
C17_RepairNeverThrows ==
    /\ pipe.pc = "serialised" =>
           JsonParse(pipe.text) = [ok |-> TRUE, val |-> ValueOf(pipe.original)]
    /\ pipe.pc = "repaired" =>
           /\ ~pipe.result.threw
           /\ pipe.result.ok =>
                  /\ pipe.result.val.t = "obj"
                  /\ DOMAIN pipe.result.val.v \subseteq KeysOf(pipe.original)

\* The text was cut off after the comma that follows the first member, and
\* the repair gave back an object with that member alone.
C17_Witness ==
    /\ pipe.pc = "repaired"
    /\ Len(pipe.text) < Len(Stringify(pipe.original))
    /\ pipe.result.ok
    /\ DOMAIN pipe.result.val.v # {}
    /\ DOMAIN pipe.result.val.v # KeysOf(pipe.original)

(***************************************************************************)
(* Properties of successive calls                                          *)
(***************************************************************************)

Orchestrators == {"github", "architecture", "codeflow"}

\* C3: in the three orchestrators the stages run in the order of the text,
\* each one only from a state whose errors list is empty; as soon as a stage
\* returns errors analyze() throws, so that the failed stage is the last one
\* that ran.
C3_NextStageOnlyWithoutErrors ==
    pipe.agent \in Orchestrators =>
        /\ Len(pipe.ran) <= Len(Stages[pipe.agent])
        /\ \A i \in 1..Len(pipe.ran) :
               /\ pipe.ran[i].stage = Stages[pipe.agent][i]
               /\ pipe.ran[i].errorsBefore = 0
        /\ pipe.state.errors # <<>> =>
               /\ pipe.status = "threw"
               /\ pipe.error.errors = pipe.state.errors
        /\ pipe.status = "running" =>
               /\ Len(pipe.ran) < Len(Stages[pipe.agent])
               /\ pipe.next = Stages[pipe.agent][Len(pipe.ran) + 1]

\* The second code-flow stage returned an error: analyze() threw and the
\* four stages after it did not run.
C3_Witness ==
    /\ pipe.agent = "codeflow"
    /\ pipe.status = "threw"
    /\ Len(pipe.ran) = 2
    /\ Len(pipe.state.errors) = 1

\* The stages that have a rule-based substitute.
FallbackStages ==
    {"detect_patterns", "analyze_execution_paths", "analyze_dependencies",
     "analyze_data_flow", "generate_recommendations"}

\* The calls and the rule-based substitutes a stage has made so far.
CallsOf(step) == {j \in 1..Len(pipe.state.llm) : pipe.state.llm[j].step = step}

FallbacksOf(step) ==
    {i \in 1..Len(pipe.state.fallbacks) : pipe.state.fallbacks[i].step = step}

C6_RulesExactlyOnce ==
    pipe.agent = "architecture" =>
        /\ \A j \in 1..Len(pipe.state.llm) : pipe.state.llm[j].requests <= DefaultRetries + 1
        /\ \A j \in CallsOf("detect_patterns") :
               ~pipe.state.llm[j].received =>
                   /\ Cardinality(FallbacksOf("detect_patterns")) = 1
                   /\ \A i \in FallbacksOf("detect_patterns") :
                          pipe.state.fallbacks[i].name = "analyzeStructuralPatterns"
                   /\ Cardinality(CallsOf("detect_patterns")) = 1

\* Three requests of the pattern detection call were made and failed, and
\* the rules were applied.
C6_Witness ==
    /\ pipe.agent = "architecture"
    /\ \E j \in CallsOf("detect_patterns") :
           /\ pipe.state.llm[j].requests = DefaultRetries + 1
           /\ ~pipe.state.llm[j].received
    /\ FallbacksOf("detect_patterns") # {}
    /\ Meta(pipe.state, "patternDetectionMethod") = Text("fallback_rules")

\* The metadata keys each of these stages fills.
StageKeys ==
    [step \in FallbackStages |->
        CASE step = "detect_patterns" -> {"detectedPatterns", "patternDetectionMethod"}
          [] step = "analyze_execution_paths" ->
                 {"executionPaths", "callGraphs", "moduleInteractions",
                  "cyclomaticComplexity", "flowPatterns"}
          [] step = "analyze_dependencies" ->
                 {"internalDependencies", "externalDependencies", "circularDependencies",
                  "dependencyRiskLevel", "dependencyNotes"}
          [] step = "analyze_data_flow" ->
                 {"dataStreams", "dataStores", "dataTransformations",
                  "dataFlowPatterns", "dataBottlenecks"}
          [] step = "generate_recommendations" ->
                 {"codeFlowRecommendations", "codeFlowComplexity", "priorityActions",
                  "riskFactors"}]

\* The strings the rule-based substitutes write.
RuleTexts ==
    {Text(s) : s \in {"MVC", "Layered", "Microservices", "Component-Based",
                      "fallback_rules", "sequential", "batch processing",
                      "low", "medium", "high",
                      "Minimal dependency analysis due to LLM limitations"}}

\* A value no part of which comes from a response.
RuleBasedItem(value) ==
    \/ value.t \in {"computed", "number"}
    \/ value.t = "str" /\ value \in RuleTexts

RuleBased(value) ==
    \/ RuleBasedItem(value)
    \/ value.t = "arr" /\ \A i \in 1..Len(value.v) : RuleBasedItem(value.v[i])

\* A step in which a stage with a substitute made calls that all threw
\* leaves the errors empty, makes no call but the stage's one, fills the
\* stage's metadata keys with rule-based values and lets analyze() go on.
FailureAbsorbed ==
    (/\ pipe.status = "running"
     /\ pipe.next \in FallbackStages
     /\ Len(pipe'.state.llm) > Len(pipe.state.llm)
     /\ \A j \in (Len(pipe.state.llm) + 1)..Len(pipe'.state.llm) :
            pipe'.state.llm[j].outcome = "threw")
    => /\ pipe.state.errors = <<>>
       /\ pipe'.state.errors = pipe.state.errors
       /\ pipe'.state.exception = "none"
       /\ Len(pipe'.state.llm) = Len(pipe.state.llm) + 1
       /\ Len(pipe'.state.fallbacks) = Len(pipe.state.fallbacks) + 1
       /\ \A key \in StageKeys[pipe.next] :
              /\ key \in DOMAIN pipe'.state.metadata
              /\ RuleBased(pipe'.state.metadata[key])
       /\ pipe'.status = "running"

C8_ReturnsWhenEveryCallFails ==
    (/\ pipe.state.llm # <<>>
     /\ \A j \in 1..Len(pipe.state.llm) : pipe.state.llm[j].outcome = "threw")
    => pipe.status # "threw"

\* The step of each analyze() whose call has no rule-based substitute.
StepWithoutFallback ==
    [agent \in Agents |->
        CASE agent = "github" -> "generate_summary"
          [] agent = "architecture" -> "generate_analysis"
          [] agent = "codeflow" -> "analyze_entry_points"
          [] agent = "risk" -> "ai_risk_analysis"]

\* C8, amended: pattern detection and four code-flow stages have a
\* rule-based substitute, but each of the four pipelines has one step whose
\* call has none (the summary, the architecture analysis, the entry points,
\* the risk analysis): analyze() returns only if a call of that step
\* returned, and if every call made by analyze() failed, analyze() throws.
C8_ThrowsWhenEveryCallFails ==
    /\ pipe.status = "returned" =>
           \E j \in CallsOf(StepWithoutFallback[pipe.agent]) :
               pipe.state.llm[j].outcome = "returned"
    /\ (/\ pipe.status # "running"
        /\ \A j \in 1..Len(pipe.state.llm) : pipe.state.llm[j].outcome = "threw")
       => pipe.status = "threw"

\* The only call of the repository pipeline, the summary's, failed after
\* three requests and analyze() threw.
C8_Witness ==
    /\ pipe.agent = "github"
    /\ pipe.status = "threw"
    /\ Len(pipe.state.llm) = 1
    /\ pipe.state.llm[1].outcome = "threw"
    /\ pipe.state.llm[1].requests = DefaultRetries + 1
    /\ pipe.error.message = "Generate summary failed"

(***************************************************************************)
(* Spec: the API.  POST /api/analyze stores a record and starts            *)
(* performAnalysis, which awaits the four pipelines in turn; DELETE         *)
(* removes a record at any time.  A pipeline returns or throws, as          *)
(* PipeSpec shows it can.                                                   *)
(***************************************************************************)

\* The number of analyses started.
MaxRuns == 2

Pipelines == <<"github", "architecture", "codeflow", "risk">>

\* The position of a pipeline in performAnalysis.
IndexOfPipeline(pipeline) == CHOOSE k \in 1..Len(Pipelines) : Pipelines[k] = pipeline

\* The await that follows the await of a pipeline in performAnalysis.
Following(pipeline) ==
    CASE pipeline = "github" -> "architecture"
      [] pipeline = "architecture" -> "codeflow"
      [] pipeline = "codeflow" -> "risk"
      [] pipeline = "risk" -> "done"

\* The key of result.result under which a pipeline's result is stored.
ResultKey(pipeline) ==
    CASE pipeline = "github" -> "repositoryAnalysis"
      [] pipeline = "architecture" -> "architectureAnalysis"
      [] pipeline = "codeflow" -> "codeFlowAnalysis"
      [] pipeline = "risk" -> "riskAssessment"

\* result.progress and result.currentStep when a pipeline is awaited.
ProgressAt(pipeline) ==
    CASE pipeline = "github" -> 10
      [] pipeline = "architecture" -> 60
      [] pipeline = "codeflow" -> 75
      [] pipeline = "risk" -> 90

CurrentStepAt(pipeline) ==
    CASE pipeline = "github" -> "Analyzing GitHub repository"
      [] pipeline = "architecture" -> "Inferring architecture patterns"
      [] pipeline = "codeflow" -> "Analyzing code flow and dependencies"
      [] pipeline = "risk" -> "Assessing migration risks and vulnerabilities"

\* Arguments taken from variables that all the runs share, which hold what
\* the first run stored.
ArgumentsOfShared(id, locals, pipeline) ==
    IF pipeline = "github" THEN {[run |-> id, by |-> "request"]}
    ELSE {[run |-> 1, by |-> Pipelines[k]] : k \in 1..(IndexOfPipeline(pipeline) - 1)}

\* The arguments performAnalysis passes to a pipeline: the request's URL,
\* or the local variables that hold the results of the pipelines before it.
ArgumentsOf(id, locals, pipeline) ==
    IF pipeline = "github" THEN {[run |-> id, by |-> "request"]}
    ELSE {locals[Pipelines[k]] : k \in 1..(IndexOfPipeline(pipeline) - 1)}

\* The record POST /api/analyze stores.
NewRecord ==
    [status |-> "pending", progress |-> 0, currentStep |-> "initialized",
     result |-> <<>>, error |-> "none", completedAt |-> FALSE]

\* analysisResults.set(id, record)
SetRecord(records, id, record) ==
    [i \in (DOMAIN records) \cup {id} |-> IF i = id THEN record ELSE records[i]]

\* GET /api/analysis/:id: the record, or 404.
NotFound == [status |-> 404, body |-> [error |-> "Analysis not found"]]

GetAnalysis(records, id) ==
    IF id \in DOMAIN records THEN [status |-> 200, body |-> records[id]] ELSE NotFound

\* analysisResults.delete(id)
DeleteRecord(records, id) == [i \in (DOMAIN records) \ {id} |-> records[i]]

\* A write that reaches every record of the map.
WriteEveryRecord(records, id, record) == [i \in DOMAIN records |-> record]

\* A write through the reference performAnalysis holds: the map shows it
\* while it holds the object.
WriteRecord(records, id, record) ==
    IF id \in DOMAIN records THEN [records EXCEPT ![id] = record] ELSE records

\* performAnalysis up to an await: progress and step are written and the
\* pipeline is invoked.
Await(id, t, record, pipeline) ==
    [t EXCEPT !.pc = pipeline,
              !.result = [record EXCEPT !.status = "running",
                                        !.progress = ProgressAt(pipeline),
                                        !.currentStep = CurrentStepAt(pipeline)],
              !.invoked = Append(@, [pipeline |-> pipeline,
                                     arguments |-> ArgumentsOf(id, t.locals, pipeline),
                                     returned |-> DOMAIN t.locals])]

\* A performAnalysis that awaits its first pipeline before it has written
\* the status.
PerformAnalysisStillPending(id, record) ==
    [Await(id, [pc |-> "entry", result |-> record, locals |-> <<>>, invoked |-> <<>>,
                threw |-> "none", threwAt |-> "none", recorded |-> FALSE],
           record, "github")
        EXCEPT !.result.status = "pending"]

\* performAnalysis from its entry to its first await.
PerformAnalysis(id, record) ==
    Await(id, [pc |-> "entry", result |-> record, locals |-> <<>>, invoked |-> <<>>,
               threw |-> "none", threwAt |-> "none", recorded |-> FALSE],
          record, "github")

\* An end of the try block that leaves the progress where the last await
\* found it.
CompletedAtNinety(t, record) ==
    [t EXCEPT !.pc = "done",
              !.result = [record EXCEPT !.currentStep = "Analysis completed",
                                        !.status = "completed",
                                        !.completedAt = TRUE]]

\* The end of the try block.
Completed(t, record) ==
    [t EXCEPT !.pc = "done",
              !.result = [record EXCEPT !.progress = 100,
                                        !.currentStep = "Analysis completed",
                                        !.status = "completed",
                                        !.completedAt = TRUE]]

\* A resumption that stores every result the way the first one is stored,
\* as a new object with that result alone.
ResumedReplacing(id, t, value, next) ==
    IF next = "done"
    THEN Completed(t, [t.result EXCEPT !.result = SetRecord(<<>>, ResultKey(t.pc), value)])
    ELSE Await(id, [t EXCEPT !.locals = SetRecord(@, t.pc, value)],
               [t.result EXCEPT !.result = SetRecord(<<>>, ResultKey(t.pc), value)],
               next)

\* performAnalysis from the return of the awaited pipeline to the next
\* await or to the end.
Resumed(id, t, value, next) ==
    IF next = "done"
    THEN Completed(t, [t.result EXCEPT !.result = SetRecord(@, ResultKey(t.pc), value)])
    ELSE Await(id, [t EXCEPT !.locals = SetRecord(@, t.pc, value)],
               [t.result EXCEPT !.result = SetRecord(@, ResultKey(t.pc), value)],
               next)

\* A catch block that records the message and leaves the status as it is.
RecordFailureUnmarked(record, message) == [record EXCEPT !.error = message]

\* The writes of the catch block.
RecordFailure(record, message) ==
    [record EXCEPT !.status = "failed", !.error = message, !.completedAt = TRUE]

\* A catch block after which the run still waits for the pipeline.
CaughtStillWaiting(t, message, present) ==
    [t EXCEPT !.threw = message, !.threwAt = t.pc,
              !.recorded = present,
              !.result = IF present THEN RecordFailure(@, message) ELSE @]

\* The catch block: the record is fetched from the map again and written if
\* it is still there.
Caught(t, message, present) ==
    [t EXCEPT !.pc = "done", !.threw = message, !.threwAt = t.pc,
              !.recorded = present,
              !.result = IF present THEN RecordFailure(@, message) ELSE @]

\* What a pipeline throws.
PipelineErrors == {"Generate summary failed", "TypeError"}

Init ==
    /\ call = NoCall
    /\ pipe = NoPipe
    /\ analysisResults = NoRecords
    /\ tasks = NoTasks
    /\ nextId = 1

\* POST /api/analyze: the record is stored and performAnalysis runs up to
\* its first await.
Post ==
    /\ nextId <= MaxRuns
    /\ tasks' = SetRecord(tasks, nextId, PerformAnalysis(nextId, NewRecord))
    /\ analysisResults' = SetRecord(analysisResults, nextId, tasks'[nextId].result)
    /\ nextId' = nextId + 1
    /\ UNCHANGED <<call, pipe>>

\* A resumption that stores the record under its id again.
PipelineReturnsStoring(id) ==
    /\ tasks[id].pc \in {Pipelines[k] : k \in 1..Len(Pipelines)}
    /\ tasks' = [tasks EXCEPT ![id] =
                     Resumed(id, @, [run |-> id, by |-> tasks[id].pc], Following(tasks[id].pc))]
    /\ analysisResults' = SetRecord(analysisResults, id, tasks'[id].result)
    /\ UNCHANGED <<call, pipe, nextId>>

\* The awaited pipeline returns its result.
PipelineReturns(id) ==
    /\ tasks[id].pc \in {Pipelines[k] : k \in 1..Len(Pipelines)}
    /\ tasks' = [tasks EXCEPT ![id] =
                     Resumed(id, @, [run |-> id, by |-> tasks[id].pc], Following(tasks[id].pc))]
    /\ analysisResults' = WriteRecord(analysisResults, id, tasks'[id].result)
    /\ UNCHANGED <<call, pipe, nextId>>

\* The awaited pipeline throws.
PipelineThrows(id) ==
    /\ tasks[id].pc \in {Pipelines[k] : k \in 1..Len(Pipelines)}
    /\ \E message \in PipelineErrors :
           tasks' = [tasks EXCEPT ![id] = Caught(@, message, id \in DOMAIN analysisResults)]
    /\ analysisResults' = WriteRecord(analysisResults, id, tasks'[id].result)
    /\ UNCHANGED <<call, pipe, nextId>>

\* DELETE /api/analysis/:id for a stored record.
Delete(id) ==
    /\ id \in DOMAIN analysisResults
    /\ analysisResults' = DeleteRecord(analysisResults, id)
    /\ UNCHANGED <<call, pipe, tasks, nextId>>

Next ==
    \/ Post
    \/ \E id \in DOMAIN tasks : PipelineReturns(id)
    \/ \E id \in DOMAIN tasks : PipelineThrows(id)
    \/ \E id \in DOMAIN tasks : Delete(id)

Spec == Init /\ [][Next]_vars

(***************************************************************************)
(* Properties of performAnalysis                                           *)
(***************************************************************************)

\* C1: in every run the pipelines are invoked in the order repository
\* analysis, architecture inference, code-flow, risk assessment, each at
\* most once; a pipeline is invoked only when all the pipelines before it
\* have returned; and its arguments are the request or results that earlier
\* pipelines of the same run returned.
C1_FixedOrderForwardOnly ==
    \A id \in DOMAIN tasks :
        /\ Len(tasks[id].invoked) <= Len(Pipelines)
        /\ \A k \in 1..Len(tasks[id].invoked) :
               /\ tasks[id].invoked[k].pipeline = Pipelines[k]
               /\ tasks[id].invoked[k].returned = {Pipelines[j] : j \in 1..(k - 1)}
               /\ \A argument \in tasks[id].invoked[k].arguments :
                      /\ argument.run = id
                      /\ argument.by \in {"request"} \cup {Pipelines[j] : j \in 1..(k - 1)}
        /\ \A pipeline \in DOMAIN tasks[id].locals :
               tasks[id].locals[pipeline] = [run |-> id, by |-> pipeline]

\* Two runs are under way at once, and one of them has invoked the risk
\* assessment with the three results of its own pipelines.
C1_Witness ==
    \E id \in DOMAIN tasks, other \in DOMAIN tasks :
        /\ id # other
        /\ tasks[other].pc = "architecture"
        /\ tasks[id].pc = "risk"
        /\ Cardinality(tasks[id].invoked[4].arguments) = 3

\* C2 as stated: whenever a pipeline threw, the run's record was given
\* status 'failed' and the message, and no later pipeline was invoked.
C2_FailureAlwaysRecorded ==
    \A id \in DOMAIN tasks :
        tasks[id].threw # "none" =>
            /\ tasks[id].recorded
            /\ tasks[id].result.status = "failed"
            /\ tasks[id].result.error = tasks[id].threw
            /\ Len(tasks[id].invoked) = IndexOfPipeline(tasks[id].threwAt)

\* C2, amended: whenever a pipeline throws, the run's record, if it has not
\* been deleted, gets status 'failed' with the thrown error's message, and
\* no later pipeline of that run is invoked.
C2_FailureRecordedIfPresent ==
    \A id \in DOMAIN tasks :
        tasks[id].threw # "none" =>
            /\ tasks[id].pc = "done"
            /\ tasks[id].invoked[Len(tasks[id].invoked)].pipeline = tasks[id].threwAt
            /\ Len(tasks[id].invoked) = IndexOfPipeline(tasks[id].threwAt)
            /\ id \in DOMAIN analysisResults =>
                   /\ tasks[id].recorded
                   /\ analysisResults[id].status = "failed"
                   /\ analysisResults[id].error = tasks[id].threw
                   /\ analysisResults[id].completedAt

\* The architecture inference of a run threw: the record shows the failure
\* and the repository analysis, and two pipelines were never invoked.
C2_Witness ==
    \E id \in DOMAIN tasks :
        /\ tasks[id].threwAt = "architecture"
        /\ id \in DOMAIN analysisResults
        /\ analysisResults[id].status = "failed"
        /\ analysisResults[id].error = "TypeError"
        /\ DOMAIN analysisResults[id].result = {"repositoryAnalysis"}
        /\ Len(tasks[id].invoked) = 2

\* The number of pipelines of a run that have returned.
ReturnedCount(t) ==
    IF t.threw # "none" THEN IndexOfPipeline(t.threwAt) - 1
    ELSE IF t.pc = "done" THEN Len(Pipelines)
    ELSE IndexOfPipeline(t.pc) - 1

\* The results a record holds after the first k pipelines of run id returned.
ResultsUpTo(id, k) ==
    [key \in {ResultKey(Pipelines[j]) : j \in 1..k} |->
        [run |-> id, by |-> CHOOSE p \in {Pipelines[j] : j \in 1..k} : ResultKey(p) = key]]

\* C19: the record of a run holds the results of the pipelines that have
\* returned, which are the first k of the pipeline order, each as it was
\* returned; this is so in the stored record as long as it exists, also
\* after a later pipeline failed.
C19_ResultsArePrefix ==
    \A id \in DOMAIN tasks :
        /\ tasks[id].result.result = ResultsUpTo(id, ReturnedCount(tasks[id]))
        /\ id \in DOMAIN analysisResults =>
               /\ analysisResults[id].result = ResultsUpTo(id, ReturnedCount(tasks[id]))
               /\ tasks[id].threw # "none" => analysisResults[id].status = "failed"

\* The code-flow pipeline of a run threw: the failed record holds the
\* results of the two pipelines before it.
C19_Witness ==
    \E id \in DOMAIN analysisResults :
        /\ tasks[id].threwAt = "codeflow"
        /\ analysisResults[id].status = "failed"
        /\ DOMAIN analysisResults[id].result = {"repositoryAnalysis", "architectureAnalysis"}

\* One step seen from a run whose record is stored: a record that shows a
\* failure shows the message of the error the run threw, a failed record
\* that is still stored is as it was, and a failed run invokes nothing.
FailedIsFinal(id) ==
    /\ id \in DOMAIN analysisResults' /\ analysisResults'[id].status = "failed" =>
           /\ tasks'[id].pc = "done"
           /\ analysisResults'[id].error = tasks'[id].threw
           /\ analysisResults'[id].error \in PipelineErrors
    /\ id \in DOMAIN analysisResults /\ analysisResults[id].status = "failed" =>
           /\ tasks'[id] = tasks[id]
           /\ id \in DOMAIN analysisResults' => analysisResults'[id] = analysisResults[id]

\* C20: a failed record reports the message of the error that ended the
\* run; once the status is 'failed', status and error never change and no
\* pipeline is invoked for that run again.
C20_FailedIsFinal == [][\A id \in DOMAIN tasks' : FailedIsFinal(id)]_vars

\* The repository analysis of the first run threw, and the second run went
\* on to its risk assessment.
C20_Witness ==
    \E id \in DOMAIN analysisResults, other \in DOMAIN tasks :
        /\ id < other
        /\ analysisResults[id].status = "failed"
        /\ analysisResults[id].error = "Generate summary failed"
        /\ Len(tasks[id].invoked) = 1
        /\ tasks[other].pc = "risk"

(***************************************************************************)
(* RunOrPipeSpec: either the coordinator with its runs, or one analyze()   *)
(* of one agent                                                            *)
(***************************************************************************)

RunOrPipeInit == Init \/ PipeInit

RunOrPipeNext ==
    \/ pipe.kind = "none" /\ Next
    \/ pipe.kind = "pipe" /\ PipeNext

RunOrPipeSpec == RunOrPipeInit /\ [][RunOrPipeNext]_vars

(***************************************************************************)
(* Properties of the progress                                              *)
(***************************************************************************)

\* One step of analyze(): the stage that ran left the progress within
\* 0..100 and not lower than it was.
StageKeepsProgress ==
    /\ pipe'.state.progress \in 0..100
    /\ pipe'.state.progress >= pipe.state.progress

\* The stage that ran in this step succeeded: no error recorded or thrown.
StageSucceeded ==
    /\ pipe' # pipe
    /\ pipe'.status # "threw"
    /\ pipe'.state.errors = pipe.state.errors

\* One step of the coordinator seen from run id: the progress of the record
\* is within 0..100 and not lower than it was, and higher when the awaited
\* pipeline returned.
RecordProgressAdvances(id) ==
    /\ tasks'[id].result.progress \in 0..100
    /\ id \in DOMAIN analysisResults' =>
           analysisResults'[id].progress = tasks'[id].result.progress
    /\ id \in DOMAIN tasks =>
           /\ tasks'[id].result.progress >= tasks[id].result.progress
           /\ tasks'[id] # tasks[id] /\ tasks'[id].threw = "none" =>
                  tasks'[id].result.progress > tasks[id].result.progress

\* C21 as stated: in the record and in the state of every pipeline the
\* progress is within 0..100, never lower after a stage than before it, and
\* higher after a stage or a pipeline that succeeded.
ProgressStrictEverywhere ==
    /\ \A id \in DOMAIN tasks' : RecordProgressAdvances(id)
    /\ pipe.kind = "pipe" =>
           /\ StageKeepsProgress
           /\ StageSucceeded => pipe'.state.progress > pipe.state.progress

C21_ProgressStrictEverywhere == [][ProgressStrictEverywhere]_vars

\* C21, amended: the progress is within 0..100 and never lower after a stage
\* than before it, in the record and in the state of every pipeline; it is
\* higher after a pipeline of the run that returned and after a stage of the
\* repository, architecture and code-flow pipelines that succeeded, while
\* the risk assessment leaves it at 75 when its AI risk analysis succeeded.
ProgressStrictInOrchestrators ==
    /\ \A id \in DOMAIN tasks' : RecordProgressAdvances(id)
    /\ pipe.kind = "pipe" =>
           /\ StageKeepsProgress
           /\ StageSucceeded /\ pipe.agent \in Orchestrators =>
                  pipe'.state.progress > pipe.state.progress
           /\ StageSucceeded /\ pipe.next = "ai_risk_analysis" =>
                  pipe'.state.progress = 75 /\ pipe.state.progress = 75

C21_ProgressStrictInOrchestrators == [][ProgressStrictInOrchestrators]_vars

\* The second stage of the repository pipeline recorded an error and left
\* the progress at the 25 of the first.
C21_Witness ==
    /\ pipe.kind = "pipe"
    /\ pipe.agent = "github"
    /\ Len(pipe.ran) = 2
    /\ Len(pipe.state.errors) = 1
    /\ pipe.state.progress = 25

(***************************************************************************)
(* Properties of the stage methods                                         *)
(***************************************************************************)

\* The stages whose only LLM call decides them.
CallStages == {"generate_summary", "generate_analysis", "analyze_entry_points"}

\* The last call the stage of this step made threw.
LastCallThrew ==
    /\ Len(pipe'.state.llm) > Len(pipe.state.llm)
    /\ pipe'.state.llm[Len(pipe'.state.llm)].outcome = "threw"

\* The stage of this step returned the state it was given with one more
\* error, and analyze() threw with the errors it found.
ReturnedOneError ==
    /\ Len(pipe'.state.errors) = Len(pipe.state.errors) + 1
    /\ SubSeq(pipe'.state.errors, 1, Len(pipe.state.errors)) = pipe.state.errors
    /\ pipe'.state.metadata = pipe.state.metadata
    /\ pipe'.state.has = pipe.state.has
    /\ pipe'.state.result = pipe.state.result
    /\ pipe'.status = "threw"
    /\ pipe'.error.errors = pipe'.state.errors

StageWithoutFallbackReturns ==
    (/\ pipe.agent \in Orchestrators
     /\ pipe.next \notin FallbackStages
     /\ pipe' # pipe)
    => /\ pipe'.state.exception = "none"
       /\ Len(pipe'.ran) = Len(pipe.ran) + 1
       /\ pipe'.state.errors = pipe.state.errors \/ ReturnedOneError
       /\ pipe.next \in CallStages /\ LastCallThrew =>
              pipe'.state.errors # pipe.state.errors
       /\ pipe'.state.errors = pipe.state.errors =>
              pipe'.state.progress > pipe.state.progress

\* C22: a stage method without a rule-based substitute never throws; when
\* its body fails (its call threw, a request failed, an earlier output is
\* missing) it returns the state with exactly one error appended and with
\* the metadata and the earlier outputs as they were, and analyze() finds
\* the error after the stage returned.
C22_StageReturnsItsError == [][StageWithoutFallbackReturns]_vars

\* The tech stack stage of the architecture pipeline failed after the
\* pattern detection had written its metadata.
C22_Witness ==
    /\ pipe.kind = "pipe"
    /\ pipe.agent = "architecture"
    /\ Len(pipe.ran) = 2
    /\ Len(pipe.state.errors) = 1
    /\ pipe.state.errors[1].message = "Failed to analyze tech stack"
    /\ "detectedPatterns" \in DOMAIN pipe.state.metadata
    /\ pipe.status = "threw"

\* Every key the metadata held before this step is there after it, with the
\* value it had.
MetadataKept ==
    \A key \in DOMAIN pipe.state.metadata :
        /\ key \in DOMAIN pipe'.state.metadata
        /\ pipe'.state.metadata[key] = pipe.state.metadata[key]

\* C23: no stage removes or overwrites a metadata key an earlier stage of
\* the pipeline wrote: after every stage each key written before it is
\* present with the value it had.
C23_MetadataAccumulates == [][MetadataKept]_vars

\* The code-flow pipeline after its fifth stage: the keys of the first stage
\* and of the fifth are both in the metadata.
C23_Witness ==
    /\ pipe.kind = "pipe"
    /\ pipe.agent = "codeflow"
    /\ Len(pipe.ran) = 5
    /\ {"entryPoints", "internalDependencies", "riskFactors"} \subseteq
           DOMAIN pipe.state.metadata

(***************************************************************************)
(* Properties of interleaved runs                                          *)
(***************************************************************************)

\* This step is a step of the performAnalysis invocation of run a.
StepOf(a) == a \in DOMAIN tasks /\ tasks'[a] # tasks[a]

\* The step leaves run b as it is: its invocation and its record.
Untouched(b) ==
    /\ tasks'[b] = tasks[b]
    /\ b \in DOMAIN analysisResults =>
           /\ b \in DOMAIN analysisResults'
           /\ analysisResults'[b] = analysisResults[b]

\* The pipeline run a invoked last was given results of run a only.
ReadsOwnResults(a) ==
    \A argument \in tasks'[a].invoked[Len(tasks'[a].invoked)].arguments :
        argument.run = a

RunsIsolated ==
    /\ \A a \in DOMAIN tasks :
           StepOf(a) => /\ ReadsOwnResults(a)
                        /\ \A b \in DOMAIN tasks \ {a} : Untouched(b)
    /\ \A b \in (DOMAIN analysisResults) \cap (DOMAIN analysisResults') :
           analysisResults'[b] # analysisResults[b] =>
               /\ StepOf(b)
               /\ analysisResults'[b] = tasks'[b].result

\* C24: a step of the performAnalysis invocation of one run reads results
\* of that run only and leaves the invocation and the record of every other
\* run as they are; a record changes only in a step of the invocation
\* started for its id, which writes what that invocation holds.
C24_RunsIsolated == [][RunsIsolated]_vars

\* Two runs under way at once, the first three pipelines ahead of the other.
C24_Witness ==
    \E a \in DOMAIN tasks, b \in DOMAIN tasks :
        /\ a # b
        /\ tasks[a].pc = "risk"
        /\ tasks[b].pc = "github"
        /\ {a, b} \subseteq DOMAIN analysisResults
        /\ analysisResults[a].progress = 90
        /\ analysisResults[b].progress = 10

(***************************************************************************)
(* Properties of the calls of one run                                      *)
(***************************************************************************)

\* The provider requests of the call that have neither failed nor been
\* answered.
InFlight(c) ==
    {i \in 1..Len(c.invoked) :
        /\ \A j \in 1..Len(c.failures) : c.failures[j].attempt # c.invoked[i].attempt
        /\ ~(c.received /\ c.invoked[i].attempt = c.attempt)}

\* At most one request is in flight, and one is exactly while the call
\* awaits its invoke.
OneRequestAtATime ==
    /\ Cardinality(InFlight(call)) <= 1
    /\ InFlight(call) # {} <=> call.pc = "invoking"

\* A request is started only when none is in flight, and the next call of
\* the caller only when the call before it has returned or thrown.
StartsAfterThePrevious ==
    /\ Len(call'.invoked) > Len(call.invoked) /\ pipe'.calls = pipe.calls =>
           /\ InFlight(call) = {}
           /\ Len(call'.invoked) = Len(call.invoked) + 1
    /\ pipe'.calls > pipe.calls =>
           /\ call.pc = "done"
           /\ call.outcome \in {"returned", "threw"}
           /\ InFlight(call) = {}
           /\ InFlight(call') = {}

\* C25: the calls of a run are made one after the other and each makes its
\* provider requests one after the other: never more than one request is in
\* flight, and a call or a request starts only after the one before it has
\* returned or thrown.
C25_OneAtATime == []OneRequestAtATime /\ [][StartsAfterThePrevious]_vars

\* The second call of the caller has its second request in flight.
C25_Witness ==
    /\ pipe.kind = "session"
    /\ pipe.calls = 2
    /\ call.pc = "invoking"
    /\ Len(call.invoked) = 2
    /\ Len(call.failures) = 1

(***************************************************************************)
(* StreamSpec: the coordinator with the clients of GET                     *)
(* /api/analysis/:id/stream                                                *)
(***************************************************************************)

MaxStreams == 1

\* What a data event shows of a record.
Shown(record) == [status |-> record.status, progress |-> record.progress]

NothingShown == [status |-> "none", progress |-> 0]

IsOver(record) == record.status \in {"completed", "failed"}

\* The handler of GET /api/analysis/:id/stream: the record, if there is one,
\* is written once and the interval is set.
Opened(id, records) ==
    [id |-> id, connected |-> TRUE, polling |-> TRUE, ended |-> FALSE,
     last |-> IF id \in DOMAIN records THEN Shown(records[id]) ELSE NothingShown]

\* The interval's callback: the record, if there is one, is written, and the
\* interval is cleared and the response ended when the run is over.
Polled(stream, records) ==
    IF stream.id \notin DOMAIN records THEN stream
    ELSE [stream EXCEPT !.last = Shown(records[stream.id]),
                        !.polling = ~IsOver(records[stream.id]),
                        !.ended = IsOver(records[stream.id])]

\* A close handler that ends the response and leaves the interval set.
DisconnectedStillPolling(stream) ==
    [stream EXCEPT !.connected = FALSE, !.ended = TRUE]

\* req.on('close'): the interval is cleared and the response ended.
Disconnected(stream) ==
    [stream EXCEPT !.connected = FALSE, !.polling = FALSE, !.ended = TRUE]

StreamInit ==
    /\ call = NoCall
    /\ pipe = [kind |-> "streams", open |-> <<>>]
    /\ analysisResults = NoRecords
    /\ tasks = NoTasks
    /\ nextId = 1

\* A client opens the stream of run id, stored or not.
OpenStream(id) ==
    /\ Len(pipe.open) < MaxStreams
    /\ pipe' = [pipe EXCEPT !.open = Append(@, Opened(id, analysisResults))]
    /\ UNCHANGED <<call, analysisResults, tasks, nextId>>

\* The interval of stream s fires.
Tick(s) ==
    /\ pipe.open[s].polling
    /\ pipe' = [pipe EXCEPT !.open[s] = Polled(@, analysisResults)]
    /\ UNCHANGED <<call, analysisResults, tasks, nextId>>

\* The client of stream s disconnects.
Disconnect(s) ==
    /\ pipe.open[s].connected
    /\ pipe' = [pipe EXCEPT !.open[s] = Disconnected(@)]
    /\ UNCHANGED <<call, analysisResults, tasks, nextId>>

\* The pipeline run id awaits settles and performAnalysis goes on.
RunStep(id) ==
    /\ id \in DOMAIN tasks
    /\ PipelineReturns(id) \/ PipelineThrows(id)

StreamNext ==
    \/ Next
    \/ \E id \in 1..MaxRuns : OpenStream(id)
    \/ \E s \in DOMAIN pipe.open : Tick(s)
    \/ \E s \in DOMAIN pipe.open : Disconnect(s)

\* Every pipeline that is awaited returns or throws in the end.
StreamSpec ==
    /\ StreamInit
    /\ [][StreamNext]_vars
    /\ \A id \in 1..MaxRuns : WF_vars(RunStep(id))

(***************************************************************************)
(* Properties of the status stream                                         *)
(***************************************************************************)

\* A step of a stream handler changes one stream and nothing of the runs; a
\* disconnect stops the polling of its stream.
StreamStepsLeaveRuns ==
    pipe' # pipe =>
        /\ UNCHANGED <<tasks, analysisResults, nextId>>
        /\ \A s \in DOMAIN pipe.open :
               pipe'.open[s] # pipe.open[s] =>
                   /\ \A other \in DOMAIN pipe.open \ {s} :
                          pipe'.open[other] = pipe.open[other]
                   /\ ~pipe'.open[s].connected => ~pipe'.open[s].polling

\* A disconnected stream polls no more, and a run that awaits a pipeline can
\* go on whatever the streams are.
DisconnectedStops ==
    /\ \A s \in DOMAIN pipe.open : ~pipe.open[s].connected => ~pipe.open[s].polling
    /\ \A id \in DOMAIN tasks : tasks[id].pc # "done" => ENABLED RunStep(id)

\* Some client of the stream of run id has disconnected while the run was
\* under way.
LeftDuring(id) ==
    /\ id \in DOMAIN tasks
    /\ tasks[id].pc # "done"
    /\ \E s \in DOMAIN pipe.open : pipe.open[s].id = id /\ ~pipe.open[s].connected

\* performAnalysis of run id has ended and the record, if stored, is
\* 'completed' or 'failed'.
RunOver(id) ==
    /\ id \in DOMAIN tasks
    /\ tasks[id].pc = "done"
    /\ id \in DOMAIN analysisResults => IsOver(analysisResults[id])

\* C26: a client that disconnects from the stream of a run stops the polling
\* of that stream and nothing else: no step of a stream handler changes a
\* run or a record, the run's awaited pipeline can still settle, and the run
\* goes on to 'completed' or 'failed'.
C26_DisconnectOnlyStopsPolling ==
    /\ []DisconnectedStops
    /\ [][StreamStepsLeaveRuns]_vars
    /\ \A id \in 1..MaxRuns : LeftDuring(id) ~> RunOver(id)

\* The client of a run's stream left while the first pipeline was awaited,
\* and the run is completed.
C26_Witness ==
    /\ pipe.kind = "streams"
    /\ \E s \in DOMAIN pipe.open :
           /\ ~pipe.open[s].connected
           /\ pipe.open[s].last = [status |-> "running", progress |-> 10]
           /\ pipe.open[s].id \in DOMAIN analysisResults
           /\ analysisResults[pipe.open[s].id].status = "completed"

(***************************************************************************)
(* RulesSpec: the rule-based computations of the agents, each applied to   *)
(* one input                                                               *)
(***************************************************************************)

HandlersFile ==
    [path |-> <<"a", "p", "i", "/", "h", "a", "n", "d", "l", "e", "r", "s",
                "/", "u", "s", "e", "r", ".", "g", "o">>,
     name |-> <<"u", "s", "e", "r", ".", "g", "o">>]

EntityFile ==
    [path |-> <<"d", "o", "m", "a", "i", "n", "/", "e", "n", "t", "i", "t",
                "y", "/", "U", "s", "e", "r", ".", "j", "a", "v", "a">>,
     name |-> <<"U", "s", "e", "r", ".", "j", "a", "v", "a">>]

TemplateFile ==
    [path |-> <<"w", "e", "b", "/", "t", "e", "m", "p", "l", "a", "t", "e",
                "s", "/", "u", "s", "e", "r", ".", "h", "t", "m", "l">>,
     name |-> <<"u", "s", "e", "r", ".", "h", "t", "m", "l">>]

FlatServiceFile ==
    [path |-> <<"s", "e", "r", "v", "i", "c", "e", ".", "j", "s">>,
     name |-> <<"s", "e", "r", "v", "i", "c", "e", ".", "j", "s">>]

DockerFile ==
    [path |-> <<"D", "o", "c", "k", "e", "r", "f", "i", "l", "e">>,
     name |-> <<"D", "o", "c", "k", "e", "r", "f", "i", "l", "e">>]

ComponentFile ==
    [path |-> <<"s", "r", "c", "/", "c", "o", "m", "p", "o", "n", "e", "n",
                "t", "s", "/", "B", "u", "t", "t", "o", "n", ".", "j", "s",
                "x">>,
     name |-> <<"B", "u", "t", "t", "o", "n", ".", "j", "s", "x">>]

\* The files a repository is made of.
FilePool ==
    {ControllerFile, ModelFile, ViewFile, ServiceFile, ReadmeFile, HandlersFile,
     EntityFile, TemplateFile, FlatServiceFile, DockerFile, ComponentFile}

NoOutput == <<>>

\* A rule and the input it is about to be applied to.
RuleInput(rule, input) ==
    [kind |-> "rules", rule |-> rule, input |-> input, applied |-> FALSE,
     output |-> NoOutput]

PatternInputs == {RuleInput("patterns", [files |-> files]) : files \in SUBSET FilePool}

MaxRisks == 3

\* n elements whose field has the value.
Repeated(n, field, value) == [i \in 1..n |-> [j \in {field} |-> value]]

\* The average of the complexities of the files: 0 without files, else
\* between 1 and 100.
AverageComplexities ==
    {Ratio(0, 1), Ratio(1, 1), Ratio(3, 2), Ratio(39, 1), Ratio(40, 1), Ratio(81, 2),
     Ratio(100, 1)}

DependencyRiskLists ==
    {Repeated(m, "riskLevel", "medium") \o Repeated(c, "riskLevel", "critical")
         \o Repeated(h, "riskLevel", "high") :
        c \in 0..MaxRisks, h \in 0..1, m \in 0..1}

MigrationBlockerLists ==
    {Repeated(b, "severity", "blocker") \o Repeated(m, "severity", "major")
         \o Repeated(c, "severity", "critical") :
        b \in 0..MaxRisks, c \in 0..1, m \in 0..1}

\* Pieces of code each of which is matched once, and pieces that are not
\* matched: a keyword inside a longer word, and an operator between blanks.
MatchedPieces ==
    <<<<"i", "f">>,
      <<"e", "l", "s", "e">>,
      <<"w", "h", "i", "l", "e">>,
      <<"f", "o", "r">>,
      <<"s", "w", "i", "t", "c", "h">>,
      <<"c", "a", "s", "e">>,
      <<"c", "a", "t", "c", "h">>,
      <<"a", "&", "&", "b">>,
      <<"a", "|", "|", "b">>,
      <<"f", "u", "n", "c", "t", "i", "o", "n">>,
      <<"d", "e", "f">>,
      <<"c", "l", "a", "s", "s">>,
      <<"m", "e", "t", "h", "o", "d">>,
      <<"p", "u", "b", "l", "i", "c">>,
      <<"p", "r", "i", "v", "a", "t", "e">>>>

UnmatchedPieces ==
    <<<<"e", "l", "s", "e", "i", "f">>,
      <<"&", "&">>,
      <<"x">>,
      <<"c", "l", "a", "s", "s", "e", "s">>,
      <<"|", "|">>,
      <<"_", "i", "f">>,
      <<"i", "f", "2">>>>

\* The pieces, each followed by a blank.
RECURSIVE Joined(_)
Joined(pieces) ==
    IF pieces = <<>> THEN <<>>
    ELSE Head(pieces) \o <<" ">> \o Joined(Tail(pieces))

\* The text n times over.
TimesOver(text, n) ==
    [i \in 1..(n * Len(text)) |-> text[((i - 1) % Len(text)) + 1]]

\* A content of the given number of matched pieces and of lines.
ContentOf(keywords, lines) ==
    TimesOver(Joined(MatchedPieces), keywords \div Len(MatchedPieces))
        \o Joined(SubSeq(MatchedPieces, 1, keywords % Len(MatchedPieces)))
        \o Joined(UnmatchedPieces)
        \o [i \in 1..(lines - 1) |-> "\n"]

FileInputs ==
    {RuleInput("file", [keywords |-> k, lines |-> n, content |-> ContentOf(k, n)]) :
        k \in {0, 1, 9, 10, 19, 20, 98, 99, 100, 120},
        n \in {1, 500, 501, 1000, 1001}}

ScoreInputs ==
    {RuleInput("score",
               [complexityMetrics |-> [overallComplexity |-> [cyclomaticComplexity |-> a]],
                dependencyRisks |-> d, migrationBlockers |-> b]) :
        a \in AverageComplexities, d \in DependencyRiskLists, b \in MigrationBlockerLists}

\* The largest number of internal dependencies of a list.
MaxDependencies == 3

FileNames == {<<"a">>, <<"b">>, <<"c">>}

\* Lists of internal dependencies between three files, with repetitions,
\* with both directions and with self-references, flagged or not.
TreeInputs ==
    {RuleInput("tree", [internalDependencies |-> q]) :
        q \in SeqsUpTo([source : FileNames, target : FileNames, isCircular : BOOLEAN],
                       MaxDependencies)}

RulesInit ==
    /\ call = NoCall
    /\ pipe \in PatternInputs \cup ScoreInputs \cup FileInputs \cup TreeInputs
    /\ analysisResults = NoRecords
    /\ tasks = NoTasks
    /\ nextId = 1

\* analyzeStructuralPatterns is applied to the file structure.
DetectPatterns ==
    /\ pipe.rule = "patterns"
    /\ ~pipe.applied
    /\ pipe' = [pipe EXCEPT !.applied = TRUE,
                            !.output = AnalyzeStructuralPatterns(pipe.input)]
    /\ UNCHANGED <<call, analysisResults, tasks, nextId>>

\* calculateOverallRiskScore is applied to the metrics, risks and blockers.
ScoreRisk ==
    /\ pipe.rule = "score"
    /\ ~pipe.applied
    /\ pipe' = [pipe EXCEPT !.applied = TRUE,
                            !.output = CalculateOverallRiskScore(
                                           pipe.input.complexityMetrics,
                                           pipe.input.dependencyRisks,
                                           pipe.input.migrationBlockers)]
    /\ UNCHANGED <<call, analysisResults, tasks, nextId>>

\* calculateFileComplexity measures the file.
MeasureFile ==
    /\ pipe.rule = "file"
    /\ ~pipe.applied
    /\ pipe' = [pipe EXCEPT !.applied = TRUE,
                            !.output = FileComplexityMetric(pipe.input.content)]
    /\ UNCHANGED <<call, analysisResults, tasks, nextId>>

\* buildDependencyTree is applied to the internal dependencies.
BuildTree ==
    /\ pipe.rule = "tree"
    /\ ~pipe.applied
    /\ pipe' = [pipe EXCEPT !.applied = TRUE,
                            !.output = BuildDependencyTree(pipe.input.internalDependencies)]
    /\ UNCHANGED <<call, analysisResults, tasks, nextId>>

RulesNext == DetectPatterns \/ ScoreRisk \/ MeasureFile \/ BuildTree

RulesSpec == RulesInit /\ [][RulesNext]_vars

(***************************************************************************)
(* Properties of the rule-based computations                               *)
(***************************************************************************)

WordController == <<"c", "o", "n", "t", "r", "o", "l", "l", "e", "r">>

WordHandlers == <<"h", "a", "n", "d", "l", "e", "r", "s">>

WordModel == <<"m", "o", "d", "e", "l">>

WordEntity == <<"e", "n", "t", "i", "t", "y">>

WordView == <<"v", "i", "e", "w">>

WordTemplate == <<"t", "e", "m", "p", "l", "a", "t", "e">>

WordService == <<"s", "e", "r", "v", "i", "c", "e">>

WordRepository == <<"r", "e", "p", "o", "s", "i", "t", "o", "r", "y">>

WordDao == <<"d", "a", "o">>

WordComponent == <<"c", "o", "m", "p", "o", "n", "e", "n", "t">>

WordModule == <<"m", "o", "d", "u", "l", "e">>

NameDockerfile == <<"d", "o", "c", "k", "e", "r", "f", "i", "l", "e">>

NameCompose == <<"d", "o", "c", "k", "e", "r", "-", "c", "o", "m", "p",
                   "o", "s", "e", ".", "y", "m", "l">>

\* Some path of the files holds the word, whatever the case of its letters.
Has(files, word) == \E f \in files : Includes(ToLowerCase(f.path), word)

Reported(patterns, name) == \E i \in 1..Len(patterns) : patterns[i] = Text(name)

PatternOrder == <<"MVC", "Layered", "Microservices", "Component-Based">>

\* The patterns are names of PatternOrder, each at most once, in that order.
InPatternOrder(patterns) ==
    \E at \in [1..Len(patterns) -> 1..Len(PatternOrder)] :
        /\ \A i \in 1..Len(patterns) : patterns[i] = Text(PatternOrder[at[i]])
        /\ \A i, j \in 1..Len(patterns) : i < j => at[i] < at[j]

PatternsFollowRules(files, patterns) ==
    /\ Has(files, WordController) /\ Has(files, WordModel) /\ Has(files, WordView)
           => Reported(patterns, "MVC")
    /\ Reported(patterns, "MVC") =>
           /\ Has(files, WordController) \/ Has(files, WordHandlers)
           /\ Has(files, WordModel) \/ Has(files, WordEntity)
           /\ Has(files, WordView) \/ Has(files, WordTemplate)
    /\ Reported(patterns, "Layered") <=>
           \/ Has(files, WordService)
           \/ Has(files, WordRepository)
           \/ Has(files, WordDao)
    /\ Reported(patterns, "Microservices") <=>
           \/ \E f \in files : ToLowerCase(f.name) \in {NameDockerfile, NameCompose}
           \/ \E f \in files : /\ Includes(ToLowerCase(f.path), WordService)
                               /\ SplitLength(f.path, "/") > 2
    /\ Reported(patterns, "Component-Based") <=>
           Has(files, WordComponent) \/ Has(files, WordModule)
    /\ InPatternOrder(patterns)
    /\ files = {ControllerFile, ModelFile, ViewFile} => patterns = <<Text("MVC")>>

\* C27: analyzeStructuralPatterns reports "MVC" when controller, model and
\* view substrings are all in the paths (handlers, entity and template
\* count as well), "Layered" exactly when service, repository or dao is,
\* "Microservices" exactly when a file is named Dockerfile or
\* docker-compose.yml or a service path has more than two segments, and
\* "Component-Based" exactly when component or module is, in that order;
\* for src/controllers/UserController.js, src/models/User.js and
\* src/views/user/index.ejs it returns exactly MVC.
C27_PatternsFollowRules ==
    pipe.rule = "patterns" /\ pipe.applied =>
        PatternsFollowRules(pipe.input.files, pipe.output)

\* The three files of the example have been analysed.
C27_Witness ==
    /\ pipe.rule = "patterns"
    /\ pipe.applied
    /\ pipe.input.files = {ControllerFile, ModelFile, ViewFile}
    /\ Len(pipe.output) = 1

\* The smaller of two whole numbers.
Smaller(a, b) == IF a <= b THEN a ELSE b

\* The points of the risks and blockers: 10 and 5 for a critical and a high
\* dependency risk, 15 and 10 for a blocker and a critical blocker.
Points(input) ==
    10 * CountWhere(input.dependencyRisks, "riskLevel", "critical")
        + 5 * CountWhere(input.dependencyRisks, "riskLevel", "high")
        + 15 * CountWhere(input.migrationBlockers, "severity", "blocker")
        + 10 * CountWhere(input.migrationBlockers, "severity", "critical")

\* score = min(100, min(average, 40) + points), the average being a / d:
\* both sides are multiplied by d and by the denominator of the score.
ScoreAsStated(input, a, d, score) ==
    /\ score.den > 0
    /\ score.num * d = score.den * Smaller(100 * d, Smaller(a, 40 * d) + Points(input) * d)
    /\ 0 <= score.num
    /\ score.num <= 100 * score.den
    /\ (/\ a = 0
        /\ CountWhere(input.dependencyRisks, "riskLevel", "critical") = 1
        /\ CountWhere(input.dependencyRisks, "riskLevel", "high") = 0
        /\ CountWhere(input.migrationBlockers, "severity", "blocker") = 1
        /\ CountWhere(input.migrationBlockers, "severity", "critical") = 0)
       => score = Ratio(25, 1)

MetricAsStated(keywords, metric) ==
    /\ metric.complexity = Smaller(keywords + 1, 100)
    /\ metric.complexity \in 1..100
    /\ metric.riskLevel \in {"high", "medium", "low"}
    /\ metric.riskLevel = "high" <=>
           metric.linesOfCode > 1000 \/ metric.complexity > 20
    /\ metric.riskLevel = "medium" <=>
           /\ ~(metric.linesOfCode > 1000 \/ metric.complexity > 20)
           /\ metric.linesOfCode > 500 \/ metric.complexity > 10

\* C29: the complexity of a file is the number of keywords of its content
\* plus 1, capped at 100, hence within 1..100; its risk level is 'high'
\* exactly when linesOfCode > 1000 or complexity > 20, 'medium' exactly when
\* it is not high and linesOfCode > 500 or complexity > 10, else 'low'.
C29_MetricAsStated ==
    pipe.rule = "file" /\ pipe.applied =>
        /\ pipe.output.linesOfCode = pipe.input.lines
        /\ MetricAsStated(pipe.input.keywords, pipe.output)

\* A file of 501 lines and 120 keywords has been measured: complexity 100.
C29_Witness ==
    /\ pipe.rule = "file"
    /\ pipe.applied
    /\ pipe.input.keywords = 120
    /\ pipe.input.lines = 501
    /\ pipe.output.complexity = 100
    /\ pipe.output.riskLevel = "high"

(***************************************************************************)
(* Properties of the back-off                                              *)
(***************************************************************************)

\* The failed attempts of the call that were not its last possible one.
FailuresBeforeLast(c) ==
    {j \in 1..Len(c.failures) : c.failures[j].attempt < DefaultRetries}

\* C30: the i-th wait of a call is 1000 * i ms and follows its i-th failed
\* attempt, so that the waits are 1000 then 2000; an attempt after the
\* first starts only after the wait that follows the attempt before it; and
\* neither the last possible attempt's failure nor a response is followed
\* by a wait.
C30_LinearBackoff ==
    /\ Len(call.waits) <= DefaultRetries
    /\ \A i \in 1..Len(call.waits) : call.waits[i] = 1000 * i
    /\ Len(call.waits) = Cardinality(FailuresBeforeLast(call))
    /\ \A i \in 1..Len(call.invoked) : Len(call.waits) >= call.invoked[i].attempt
    /\ call.pc = "waiting" => Len(call.waits) = call.attempt + 1
    /\ call.pc = "invoking" => Len(call.waits) = call.attempt
    /\ call.received => Len(call.waits) = Len(call.failures)
    /\ Len(call.failures) = DefaultRetries + 1 => call.waits = <<1000, 2000>>

\* The third attempt of a call failed: the call threw after waits of 1000
\* and 2000 ms.
C30_Witness ==
    /\ call.waits = <<1000, 2000>>
    /\ Len(call.failures) = 3
    /\ call.outcome = "threw"

(***************************************************************************)
(* Properties of the two repairs                                           *)
(***************************************************************************)

\* The text from the first "{" of the trimmed text on.
FromFirstBrace(text) ==
    SubSeq(Trim(text), IndexOf(Trim(text), <<"{">>, 1), Len(Trim(text)))

\* Reading s from its start, the depth of the braces never returns to zero.
NoBalancedBrace(s) ==
    \A i \in 1..Len(s) :
        CountChar(SubSeq(s, 1, i), "{") # CountChar(SubSeq(s, 1, i), "}")

\* The text has an opening brace whose closing brace is missing.
IsOpenEnded(text) ==
    /\ IndexOf(Trim(text), <<"{">>, 1) # 0
    /\ NoBalancedBrace(FromFirstBrace(text))

\* s up to its last quote, with the brackets balanced.
ClosedAtLastQuote(s) ==
    SubSeq(s, 1, LastIndexOf(s, <<"\"">>))
        \o Closers(SubSeq(s, 1, LastIndexOf(s, <<"\"">>)))

\* s without a comma at its end, with the brackets balanced.
WithoutTrailingComma(s) ==
    IF s # <<>> /\ s[Len(s)] = "," THEN SubSeq(s, 1, Len(s) - 1) ELSE s

ClosedAfterComma(s) == WithoutTrailingComma(s) \o Closers(WithoutTrailingComma(s))

\* The parse of the first of the two texts that parses, null if neither does.
FirstOfTwo(first, second) ==
    IF JsonParse(first).ok THEN Returning(JsonParse(first))
    ELSE IF JsonParse(second).ok THEN Returning(JsonParse(second))
    ELSE Returning(Null)

\* C31: for a text whose first "{" is never closed, repairTruncatedJson
\* returns the parse of the text closed at its last quote if that parses,
\* else the parse of the text closed after dropping a trailing comma if that
\* parses, else null.
C31_RepairsInOrder ==
    (pipe.pc = "repaired" /\ IsOpenEnded(pipe.text)) =>
        pipe.result = FirstOfTwo(ClosedAtLastQuote(FromFirstBrace(pipe.text)),
                                 ClosedAfterComma(FromFirstBrace(pipe.text)))

\* Both repairs give a text that parses, to different values, and the value
\* of the first repair was returned.
C31_Witness ==
    /\ pipe.pc = "repaired"
    /\ IsOpenEnded(pipe.text)
    /\ JsonParse(ClosedAtLastQuote(FromFirstBrace(pipe.text))).ok
    /\ JsonParse(ClosedAfterComma(FromFirstBrace(pipe.text))).ok
    /\ JsonParse(ClosedAtLastQuote(FromFirstBrace(pipe.text)))
           # JsonParse(ClosedAfterComma(FromFirstBrace(pipe.text)))
    /\ pipe.result.ok
    /\ pipe.result.val = JsonParse(ClosedAtLastQuote(FromFirstBrace(pipe.text))).val

\* s up to the first position where the depth of its braces is zero again.
UpToBalance(s) ==
    SubSeq(s, 1, MinOf({i \in 1..Len(s) :
                          CountChar(SubSeq(s, 1, i), "{") = CountChar(SubSeq(s, 1, i), "}")}))

\* The brace count finds an end, and the text up to it is not JSON.
EndsTooEarly(text) ==
    /\ IndexOf(Trim(text), <<"{">>, 1) # 0
    /\ ~NoBalancedBrace(FromFirstBrace(text))
    /\ ~JsonParse(UpToBalance(FromFirstBrace(text))).ok

\* C37: when the brace count from the first "{" finds a position where the
\* depth is zero again and the text up to it does not parse,
\* repairTruncatedJson returns null, whatever the repairs would have given.
C37_NoRepairAfterBalance ==
    (pipe.pc = "repaired" /\ EndsTooEarly(pipe.text)) => pipe.result = Returning(Null)

\* A brace inside a string value ended the count, null was returned, and one
\* of the repairs would have given a text that parses.
C37_Witness ==
    /\ pipe.pc = "repaired"
    /\ EndsTooEarly(pipe.text)
    /\ pipe.result = Returning(Null)
    /\ FirstOfTwo(ClosedAtLastQuote(FromFirstBrace(pipe.text)),
                  ClosedAfterComma(FromFirstBrace(pipe.text))).ok

\* The innermost open structure is an object, and a list is open around it.
ObjectInList(open) ==
    /\ open # <<>>
    /\ open[Len(open)] = "{"
    /\ \E i \in DOMAIN open : open[i] = "["

ObjectOpenInList(s) == ObjectInList(OpenStructures(s, 1, <<>>, FALSE))

\* s is t followed by "]"s and then "}"s.
BracketsFirst(s, t) ==
    /\ Len(s) >= Len(t)
    /\ SubSeq(s, 1, Len(t)) = t
    /\ \A i, j \in (Len(t) + 1)..Len(s) :
           /\ s[i] \in {"]", "}"}
           /\ (i < j /\ s[i] = "}") => s[j] = "}"

\* The statement of C38 read of the text that was handed to the repair:
\* whenever its innermost open structure is an object inside a list, nothing
\* that parses comes out of the repairs, and null is returned.
C38_TruncationNeverRepaired ==
    (/\ pipe.pc = "repaired"
     /\ IsOpenEnded(pipe.text)
     /\ ObjectOpenInList(FromFirstBrace(pipe.text))) => pipe.result = Returning(Null)

\* What a repair closes: the text up to its last quote, and the text without
\* its trailing comma.
UpToLastQuote(s) == SubSeq(s, 1, LastIndexOf(s, <<"\"">>))

\* C38: both repairs append every missing "]" before every missing "}"; a
\* repair whose text (up to the last quote, or without the trailing comma)
\* has an object inside a list as its innermost open structure gives a text
\* that does not parse, and when that is so for both repairs null is returned.
C38_BracketsBeforeBraces ==
    (pipe.pc = "repaired" /\ IsOpenEnded(pipe.text)) =>
        /\ RepairIncomplete(FromFirstBrace(pipe.text)).some
        /\ BracketsFirst(RepairIncomplete(FromFirstBrace(pipe.text)).text,
                         WithoutTrailingComma(FromFirstBrace(pipe.text)))
        /\ RepairUnterminatedString(FromFirstBrace(pipe.text)).some =>
               \/ RepairUnterminatedString(FromFirstBrace(pipe.text)).text
                      = FromFirstBrace(pipe.text)
               \/ BracketsFirst(RepairUnterminatedString(FromFirstBrace(pipe.text)).text,
                                UpToLastQuote(FromFirstBrace(pipe.text)))
        /\ ObjectOpenInList(UpToLastQuote(FromFirstBrace(pipe.text))) =>
               ~ParseRepaired(RepairUnterminatedString(FromFirstBrace(pipe.text))).ok
        /\ ObjectOpenInList(WithoutTrailingComma(FromFirstBrace(pipe.text))) =>
               ~ParseRepaired(RepairIncomplete(FromFirstBrace(pipe.text))).ok
        /\ (/\ ObjectOpenInList(UpToLastQuote(FromFirstBrace(pipe.text)))
            /\ ObjectOpenInList(WithoutTrailingComma(FromFirstBrace(pipe.text))))
               => pipe.result = Returning(Null)

\* The text was cut inside an object that is an element of a list, both
\* repairs closed the list first, and null was returned although closing
\* the object first gives a text that parses.
C38_Witness ==
    /\ pipe.pc = "repaired"
    /\ IsOpenEnded(pipe.text)
    /\ ObjectOpenInList(UpToLastQuote(FromFirstBrace(pipe.text)))
    /\ ObjectOpenInList(WithoutTrailingComma(FromFirstBrace(pipe.text)))
    /\ pipe.result = Returning(Null)
    /\ JsonParse(pipe.text \o ClosersInNestingOrder(pipe.text)).ok

(***************************************************************************)
(* Properties of the architecture synthesis                                *)
(***************************************************************************)

\* The calls of the architecture synthesis with the given prompt.
SynthesisCalls(tier) ==
    {j \in CallsOf("generate_analysis") : pipe.state.llm[j].tier = tier}

\* C32: in the architecture pipeline the synthesis stage makes one call with
\* the full prompt; exactly when that call threw it makes one call with the
\* simplified prompt, after it; it never computes a rule-based substitute;
\* and when the simplified call threw too, the state holds one error and
\* analyze() has thrown "Architecture analysis failed".
C32_SynthesisHasNoHeuristic ==
    pipe.agent = "architecture" =>
        /\ FallbacksOf("generate_analysis") = {}
        /\ Cardinality(SynthesisCalls("full")) <= 1
        /\ Cardinality(SynthesisCalls("simplified")) <= 1
        /\ \A j \in SynthesisCalls("full") :
               pipe.state.llm[j].outcome = "threw" <=> SynthesisCalls("simplified") = {j + 1}
        /\ SynthesisCalls("simplified") # {} => SynthesisCalls("full") # {}
        /\ \A k \in SynthesisCalls("simplified") :
               pipe.state.llm[k].outcome = "threw" =>
                   /\ Len(pipe.state.errors) = 1
                   /\ "architectureAnalysis" \notin pipe.state.has
                   /\ pipe.status = "threw"
                   /\ pipe.error.message = "Architecture analysis failed"
                   /\ pipe.error.errors = pipe.state.errors

\* Both calls of the synthesis threw, each after three requests, and
\* analyze() threw.
C32_Witness ==
    /\ pipe.agent = "architecture"
    /\ pipe.status = "threw"
    /\ \E j \in SynthesisCalls("full") :
           /\ pipe.state.llm[j].outcome = "threw"
           /\ pipe.state.llm[j].requests = DefaultRetries + 1
    /\ \E k \in SynthesisCalls("simplified") :
           /\ pipe.state.llm[k].outcome = "threw"
           /\ pipe.state.llm[k].requests = DefaultRetries + 1
    /\ Len(pipe.state.errors) = 1

(***************************************************************************)
(* Properties of the dependency tree                                       *)
(***************************************************************************)

\* The number of child edges from -> to in the tree.
ChildEdges(tree, from, to) ==
    Cardinality({<<n, c>> \in (DOMAIN tree) \X (1..MaxDependencies) :
                    /\ tree[n].name = from
                    /\ c \in DOMAIN tree[n].children
                    /\ tree[n].children[c].name = to})

\* The dependencies from -> to of the list that are not flagged isCircular.
Unflagged(dependencies, from, to) ==
    {i \in DOMAIN dependencies :
        /\ dependencies[i].source = from
        /\ dependencies[i].target = to
        /\ ~dependencies[i].isCircular}

\* C33: in the tree built from a list of internal dependencies every child
\* edge comes from a dependency that is not flagged isCircular (there are no
\* more edges from -> to than unflagged dependencies from -> to), and for
\* distinct files the tree never holds both the edge A -> B and the edge
\* B -> A.
C33_NoCircularEdges ==
    (pipe.rule = "tree" /\ pipe.applied) =>
        \A from, to \in FileNames :
            /\ ChildEdges(pipe.output, from, to)
                   <= Cardinality(Unflagged(pipe.input.internalDependencies, from, to))
            /\ from # to =>
                   \/ ChildEdges(pipe.output, from, to) = 0
                   \/ ChildEdges(pipe.output, to, from) = 0

\* The list holds a -> b and then b -> a, neither flagged, and a flagged
\* dependency: the tree has the edge a -> b and no other.
C33_Witness ==
    /\ pipe.rule = "tree"
    /\ pipe.applied
    /\ Len(pipe.input.internalDependencies) = 3
    /\ Unflagged(pipe.input.internalDependencies, <<"a">>, <<"b">>) = {1}
    /\ Unflagged(pipe.input.internalDependencies, <<"b">>, <<"a">>) = {2}
    /\ pipe.input.internalDependencies[3].isCircular
    /\ ChildEdges(pipe.output, <<"a">>, <<"b">>) = 1
    /\ \A from, to \in FileNames :
           <<from, to>> # <<(<<"a">>), (<<"b">>)>> => ChildEdges(pipe.output, from, to) = 0

(***************************************************************************)
(* Properties of the completed record                                      *)
(***************************************************************************)

\* The keys of result.result after the four pipelines.
AllResultKeys == {ResultKey(Pipelines[k]) : k \in 1..Len(Pipelines)}

\* A completed record is whole.
CompletedIsWhole ==
    \A id \in DOMAIN analysisResults :
        analysisResults[id].status = "completed" =>
            /\ analysisResults[id].progress = 100
            /\ DOMAIN analysisResults[id].result = AllResultKeys
            /\ \A k \in 1..Len(Pipelines) :
                   analysisResults[id].result[ResultKey(Pipelines[k])]
                       = [run |-> id, by |-> Pipelines[k]]
            /\ analysisResults[id].completedAt
            /\ analysisResults[id].error = "none"

\* A completed record is written no more, and its run takes no further step.
CompletedIsFinal ==
    \A id \in DOMAIN analysisResults :
        analysisResults[id].status = "completed" =>
            /\ tasks'[id] = tasks[id]
            /\ id \in DOMAIN analysisResults' =>
                   /\ analysisResults'[id].status = "completed"
                   /\ analysisResults'[id].progress = analysisResults[id].progress
                   /\ analysisResults'[id].result = analysisResults[id].result

\* C34: a record with status 'completed' has progress 100, the results of
\* the four pipelines of its own run, completedAt set and no error; and as
\* long as it is stored its status, progress and results stay as they are.
C34_CompletedIsWholeAndFinal == []CompletedIsWhole /\ [][CompletedIsFinal]_vars

\* The first run is completed and stored, and the second run, started after
\* it, has failed.
C34_Witness ==
    /\ 1 \in DOMAIN analysisResults
    /\ analysisResults[1].status = "completed"
    /\ 2 \in DOMAIN analysisResults
    /\ analysisResults[2].status = "failed"

(***************************************************************************)
(* LiveSpec: one call of the client, one analyze() or the runs of the API, *)
(* where every request that is awaited is answered or fails in the end     *)
(***************************************************************************)

\* What one analyze() of each agent is given.
LiveInputOf(agent) ==
    CASE agent = "github" -> NoInput
      [] agent = "architecture" ->
             [NoInput EXCEPT !.fileStructure.files = {ControllerFile, ServiceFile}]
      [] agent = "codeflow" -> [NoInput EXCEPT !.fileStructure.sourceFiles = 2]
      [] agent = "risk" -> [NoInput EXCEPT !.architectureDetails = DefaultDetails]

\* A call of a client of an agent is about to be made, or analyze() of an
\* agent is entered, or the server has started.
LiveInit ==
    /\ \/ /\ call \in {NewCall(1, cfg) : cfg \in AgentConfigs}
          /\ pipe = NoPipe
       \/ /\ call = NoCall
          /\ pipe \in {NewPipe(agent, cfg, LiveInputOf(agent)) :
                          agent \in Agents, cfg \in {cfg \in AgentConfigs : cfg.gemini}}
       \/ /\ call = NoCall
          /\ pipe = NoPipe
    /\ analysisResults = NoRecords
    /\ tasks = NoTasks
    /\ nextId = 1

\* The pending request of the call returns or throws, or its back-off timer
\* fires.
CallStep ==
    /\ call # NoCall
    /\ ProviderReturns \/ ProviderThrows \/ BackoffElapses

\* The stage analyze() awaits ends, its GitHub requests and its calls of the
\* client answered or failed.
StageStep == pipe.kind = "pipe" /\ PipeNext

LiveNext ==
    \/ call # NoCall /\ ClientNext
    \/ StageStep
    \/ call = NoCall /\ pipe.kind = "none" /\ Next

\* Every request of a call and every pipeline of a run that is awaited
\* returns or throws in the end, and every timer fires.
LiveSpec ==
    /\ LiveInit
    /\ [][LiveNext]_vars
    /\ WF_vars(CallStep)
    /\ \A id \in 1..MaxRuns : WF_vars(RunStep(id))

(***************************************************************************)
(* Properties of termination                                               *)
(***************************************************************************)

\* A call that was entered ends: it returns or throws.
CallEnds ==
    (call # NoCall /\ call.pc \in {"invoking", "waiting"})
        ~> (call.pc = "done" /\ call.outcome \in {"returned", "threw"})

\* analyze() awaits its stages one after the other, each at most once: while
\* it runs the next stage is the one after those that ran, and every stage
\* that ends adds itself to those that ran.
StagesInTurn ==
    (pipe.kind = "pipe" /\ pipe.status = "running") =>
        /\ Len(pipe.ran) < Len(Stages[pipe.agent])
        /\ pipe.next = Stages[pipe.agent][Len(pipe.ran) + 1]

StagesAdvance ==
    (pipe.kind = "pipe" /\ pipe' # pipe) =>
        /\ pipe.status = "running"
        /\ Len(pipe'.ran) = Len(pipe.ran) + 1
        /\ pipe'.ran[Len(pipe'.ran)].stage = pipe.next
        /\ pipe'.status \in {"running", "returned", "threw"}

\* The statement of C35 read of the record performAnalysis holds, stored or
\* not: every started run reaches the status 'completed' or 'failed'.
C35_EveryRunGetsFinalStatus ==
    \A id \in 1..MaxRuns :
        (id \in DOMAIN tasks) ~> (id \in DOMAIN tasks /\ IsOver(tasks[id].result))

\* C35: when every awaited request returns or throws in the end, every call
\* of the client ends, every analyze() runs each of its stages at most once
\* and in turn, and every started run ends, its record, unless it was
\* deleted in the meantime, with the status 'completed' or 'failed'.
C35_EveryRunEnds ==
    /\ CallEnds
    /\ []StagesInTurn
    /\ [][StagesAdvance]_vars
    /\ \A id \in 1..MaxRuns : (id \in DOMAIN tasks) ~> RunOver(id)

\* The first run has ended with a failure after its record was deleted, so
\* that no record reports it, and the second run is completed.
C35_Witness ==
    /\ DOMAIN tasks = {1, 2}
    /\ tasks[1].pc = "done"
    /\ tasks[1].threw # "none"
    /\ ~tasks[1].recorded
    /\ tasks[1].result.status = "running"
    /\ 1 \notin DOMAIN analysisResults
    /\ 2 \in DOMAIN analysisResults
    /\ analysisResults[2].status = "completed"

(***************************************************************************)
(* Properties of the errors list                                           *)
(***************************************************************************)

\* C36: the errors list of an analyze() never holds more than one message,
\* and every stage that ran started from an empty errors list; once the list
\* holds a message analyze() has thrown, and no further stage runs.
C36_AtMostOneError ==
    pipe.kind = "pipe" =>
        /\ Len(pipe.state.errors) <= 1
        /\ \A i \in 1..Len(pipe.ran) : pipe.ran[i].errorsBefore = 0
        /\ pipe.state.errors # <<>> => pipe.status = "threw"

\* The third stage of the architecture pipeline recorded an error, the only
\* one of the list, and analyze() threw before the synthesis.
C36_Witness ==
    /\ pipe.agent = "architecture"
    /\ pipe.status = "threw"
    /\ Len(pipe.ran) = 3
    /\ pipe.ran[3].stage = "infer_components"
    /\ Len(pipe.state.errors) = 1
    /\ pipe.error.message = "Component inference failed"

(***************************************************************************)
(* Properties of a run whose record was deleted                            *)
(***************************************************************************)

\* The runs that were started and whose record is not stored.
DeletedRuns == (DOMAIN tasks) \ (DOMAIN analysisResults)

\* A deleted run that is under way can go on: the pipeline it awaits can
\* return and can throw.
DeletedRunGoesOn ==
    \A id \in DeletedRuns :
        tasks[id].pc # "done" => ENABLED PipelineReturns(id) /\ ENABLED PipelineThrows(id)

\* Once deleted, a record is not stored again and GET answers 404; the run
\* goes from the pipeline that returned to the next one, and a pipeline that
\* throws ends the run without a write to any record.
DeletedStaysDeleted ==
    \A id \in DeletedRuns :
        /\ id \notin DOMAIN analysisResults'
        /\ GetAnalysis(analysisResults', id).status = 404
        /\ tasks'[id] # tasks[id] =>
               /\ tasks[id].pc # "done"
               /\ analysisResults' = analysisResults
               /\ tasks'[id].threw = "none" =>
                      /\ tasks'[id].pc = Following(tasks[id].pc)
                      /\ tasks'[id].pc # "done" =>
                             /\ Len(tasks'[id].invoked) = Len(tasks[id].invoked) + 1
                             /\ tasks'[id].invoked[Len(tasks'[id].invoked)].pipeline
                                    = tasks'[id].pc
               /\ tasks'[id].threw # "none" =>
                      /\ tasks'[id].pc = "done"
                      /\ ~tasks'[id].recorded
                      /\ tasks'[id].result = tasks[id].result

\* C39: a run whose record was deleted while its pipelines were executing
\* goes on with its remaining pipelines; its record is never stored again,
\* so that every later GET of its id answers not-found; and when one of its
\* pipelines throws after the deletion, no record is written.
C39_DeletedRunLeavesNoRecord == []DeletedRunGoesOn /\ [][DeletedStaysDeleted]_vars

\* The record of the first run was deleted while the run was under way; the
\* run went on to its risk assessment, which threw, and nothing reports it.
C39_Witness ==
    /\ 1 \in DeletedRuns
    /\ tasks[1].pc = "done"
    /\ tasks[1].threwAt = "risk"
    /\ Len(tasks[1].invoked) = 4
    /\ ~tasks[1].recorded
    /\ tasks[1].result.status = "running"
    /\ tasks[1].result.error = "none"
    /\ GetAnalysis(analysisResults, 1) = NotFound

(***************************************************************************)
(* Properties of the status a poller sees                                  *)
(***************************************************************************)

ObservableStatuses == {"running", "completed", "failed"}

\* C40: no GET of a stored record and no data event of a stream shows the
\* status 'pending': whatever a poller reads of an existing record is
\* 'running', 'completed' or 'failed'.
C40_PendingNeverObserved ==
    /\ \A id \in DOMAIN analysisResults :
           /\ GetAnalysis(analysisResults, id).status = 200
           /\ GetAnalysis(analysisResults, id).body.status \in ObservableStatuses
    /\ pipe.kind = "streams" =>
           \A s \in DOMAIN pipe.open :
               pipe.open[s].last # NothingShown =>
                   pipe.open[s].last.status \in ObservableStatuses

\* A client opened the stream of a run right after its POST: the first data
\* event shows 'running' at progress 10, the run awaiting its first
\* pipeline.
C40_Witness ==
    /\ pipe.kind = "streams"
    /\ \E s \in DOMAIN pipe.open :
           /\ pipe.open[s].connected
           /\ pipe.open[s].last = [status |-> "running", progress |-> 10]
           /\ pipe.open[s].id \in DOMAIN analysisResults
           /\ GetAnalysis(analysisResults, pipe.open[s].id).body.status = "running"
           /\ tasks[pipe.open[s].id].pc = "github"
           /\ Len(tasks[pipe.open[s].id].invoked) = 1

====
